---- MODULE Spec2Model ----
(***************************************************************************)
(* Order / production-card lifecycle, time tracking and material usage of  *)
(* the bySIMMED ERP backend (use-case and repository layers).              *)
(*                                                                         *)
(* Time is measured in clock units of 1/UnitsPerMinute minute; Date values *)
(* are clock readings, None stands for an absent (undefined) field.        *)
(***************************************************************************)
EXTENDS Integers, Sequences, FiniteSets, TLC

VARIABLES inventory, orders, cards, nextOrderId, nextCardId, now, res, pauseLog,
          inflight

vars == <<inventory, orders, cards, nextOrderId, nextCardId, now, res, pauseLog,
          inflight>>

\* ---------------------------------------------------------------- bounds
MaxOrders == 1
MaxQuantity == 2
MaxTime == 1
MaxTimeT == 5
MaxStock == 4
MaxMaterials == 1
MaxTrackers == 1
MaxPauses == 2
MaxInflight == 2

\* ------------------------------------------------------------- constants
UnitsPerMinute == 3
None == -1
DefaultPlannedQuantity == 1
DefaultEstimatedTime == 1
CardQuantity == 1

PENDING == "pending"
IN_PROGRESS == "in_progress"
PAUSED == "paused"
COMPLETED == "completed"
CANCELLED == "cancelled"
OVERDUE == "overdue"

ManufacturingOrderStatus == {PENDING, IN_PROGRESS, PAUSED, COMPLETED, CANCELLED, OVERDUE}
ProductionCardStatus == {PENDING, IN_PROGRESS, PAUSED, COMPLETED, CANCELLED}
ProductionCardPriority == {"low", "normal", "high", "urgent"}

\* outcomes of a use-case call: the value returned, or the class of the Error thrown
OK == "ok"
NotFound == "NotFound"
InvalidState == "InvalidState"
RepoError == "Error"

\* ------------------------------------------------------------- the catalog
ItemIds == {"m1", "c1", "c2", "x1"}
UnknownId == "zz"

\* canManufacture is "true", "false" or "null" (stored without a boolean value);
\* estimatedManufacturingTime is a number of hours or None (absent)
NoItem ==
  [exists |-> FALSE, type |-> "none", sku |-> "", quantity |-> 0,
   canManufacture |-> "false", estimatedManufacturingTime |-> None, components |-> <<>>]

Catalog ==
  [i \in ItemIds |->
     CASE i = "m1" -> [exists |-> TRUE, type |-> "model", sku |-> "M1", quantity |-> 0,
                       canManufacture |-> "true", estimatedManufacturingTime |-> 2,
                       components |-> <<"c1", "c2">>]
       [] i = "c1" -> [exists |-> TRUE, type |-> "component", sku |-> "C1", quantity |-> 0,
                       canManufacture |-> "false", estimatedManufacturingTime |-> None,
                       components |-> <<>>]
       [] i = "c2" -> [exists |-> TRUE, type |-> "component", sku |-> "C2", quantity |-> 0,
                       canManufacture |-> "false", estimatedManufacturingTime |-> None,
                       components |-> <<>>]
       [] OTHER    -> [exists |-> TRUE, type |-> "material", sku |-> "X1", quantity |-> 0,
                       canManufacture |-> "false", estimatedManufacturingTime |-> None,
                       components |-> <<>>]]

\* IInventoryRepository.findById: the stored item, or null (an item with exists = FALSE)
InvFindById(inv, id) == IF id \in ItemIds THEN inv[id] ELSE NoItem

\* IInventoryRepository.updateQuantity: findByIdAndUpdate of the quantity field
InvUpdateQuantity(inv, id, quantity) ==
  IF id \in ItemIds /\ inv[id].exists
    THEN [inv EXCEPT ![id].quantity = quantity]
    ELSE inv

\* ------------------------------------------------------------ time tracker
NoTracker ==
  [exists |-> FALSE, startTime |-> None, isPaused |-> FALSE,
   pauseStartTime |-> None, totalPauseMinutes |-> 0]

\* Math.round(t / (1000 * 60)) for a duration t in clock units
RoundMinutes(t) == (2 * t + UnitsPerMinute) \div (2 * UnitsPerMinute)

Max(a, b) == IF a >= b THEN a ELSE b

\* the tracker literal written by startProduction / startComponentProduction
NewTracker(t) ==
  [exists |-> TRUE, startTime |-> t, isPaused |-> FALSE,
   pauseStartTime |-> None, totalPauseMinutes |-> 0]

\* a pause that records the flag without the pause start
PauseTrackerFlagOnly(tr, t) ==
  [tr EXCEPT !.exists = TRUE, !.isPaused = TRUE]

\* $set of timeTracker.isPaused and timeTracker.pauseStartTime (creates the sub-document)
PauseTracker(tr, t) ==
  [tr EXCEPT !.exists = TRUE, !.isPaused = TRUE, !.pauseStartTime = t]

\* the read half of resumeProduction: null unless a tracker with pauseStartTime is stored
CanResumeTracker(tr) == tr.exists /\ tr.pauseStartTime # None

\* the write half of resumeProduction: fold the rounded pause into totalPauseMinutes
ResumeTrackerFloor(tr, t) ==
  [tr EXCEPT !.isPaused = FALSE,
             !.totalPauseMinutes = @ + ((t - tr.pauseStartTime) \div UnitsPerMinute),
             !.pauseStartTime = None]

ResumeTracker(tr, t) ==
  [tr EXCEPT !.isPaused = FALSE,
             !.totalPauseMinutes = @ + RoundMinutes(t - tr.pauseStartTime),
             !.pauseStartTime = None]

\* getCurrentProductionTime / getComponentProductionTime read startTime.getTime():
\* on a stored tracker without startTime the query throws a TypeError
ElapsedThrows(tr) == tr.exists /\ tr.startTime = None

\* getCurrentProductionTime / getComponentProductionTime on a stored tracker at
\* reading t: 0 without a tracker, else the elapsed minutes (when it does not throw)
ElapsedNoPause(tr, t) ==
  IF ~tr.exists THEN 0
  ELSE Max(0, RoundMinutes((t - tr.startTime) - tr.totalPauseMinutes * UnitsPerMinute))

Elapsed(tr, t) ==
  IF ~tr.exists THEN 0
  ELSE LET total0 == t - tr.startTime
           total1 == IF tr.isPaused /\ tr.pauseStartTime # None
                       THEN total0 - (t - tr.pauseStartTime) ELSE total0
           total2 == total1 - tr.totalPauseMinutes * UnitsPerMinute
       IN  Max(0, RoundMinutes(total2))

\* ------------------------------------------------------- embedded documents
\* ComponentProgress as pushed by createManufacturingOrder
NewComponent(componentId) ==
  [componentId |-> componentId, quantityRequired |-> 1, quantityCompleted |-> 0,
   isCompleted |-> FALSE, completedAt |-> None, startedAt |-> None,
   timeTracker |-> NoTracker, materialUsage |-> <<>>]

\* the component list resolved from a list of catalog ids; ids that do not resolve are skipped
ResolveComponentsKeepAll(inv, ids) ==
  [i \in 1..Len(ids) |-> NewComponent(ids[i])]

ResolveComponents(inv, ids) ==
  LET found == SelectSeq(ids, LAMBDA c : InvFindById(inv, c).exists)
  IN  [i \in 1..Len(found) |-> NewComponent(found[i])]

\* JSON.parse(JSON.stringify(components)): every serialisable field is copied into a
\* fresh value, undefined fields stay absent
JsonClone(components) ==
  [i \in 1..Len(components) |->
     [componentId |-> components[i].componentId,
      quantityRequired |-> components[i].quantityRequired,
      quantityCompleted |-> components[i].quantityCompleted,
      isCompleted |-> components[i].isCompleted,
      completedAt |-> components[i].completedAt,
      startedAt |-> components[i].startedAt,
      timeTracker |-> components[i].timeTracker,
      materialUsage |-> components[i].materialUsage]]

\* components.find(c => c.componentId === componentId) and the positional operator
\* `components.$`: the index of the first match, 0 when there is none
FindComponent(components, componentId) ==
  IF \E i \in 1..Len(components) : components[i].componentId = componentId
    THEN CHOOSE i \in 1..Len(components) :
           /\ components[i].componentId = componentId
           /\ \A j \in 1..(i - 1) : components[j].componentId # componentId
    ELSE 0

\* order.components.every(c => c.isCompleted)
SomeComponentComplete(components) ==
  \E i \in 1..Len(components) : components[i].isCompleted

AllComponentsComplete(components) ==
  \A i \in 1..Len(components) : components[i].isCompleted

\* the order document saved by createManufacturingOrder
NewOrder(model, modelId, quantity, dueDate, components) ==
  [modelId |-> modelId, quantity |-> quantity, dueDate |-> dueDate,
   clientName |-> "client", notes |-> "",
   status |-> PENDING, components |-> components,
   estimatedHours |->
     (IF model.estimatedManufacturingTime \in {None, 0} THEN DefaultEstimatedTime
      ELSE model.estimatedManufacturingTime) * quantity,
   startedAt |-> None, completedAt |-> None, timeTracker |-> NoTracker]

\* the card document saved by createProductionCard for request number i
NewCardZeroBased(model, modelId, orderId, i, quantity, dueDate, components) ==
  [orderId |-> orderId, cardNumber |-> i - 1, totalCards |-> quantity,
   modelId |-> modelId, quantity |-> CardQuantity, dueDate |-> dueDate,
   status |-> PENDING, priority |-> "normal",
   components |-> JsonClone(JsonClone(components)),
   estimatedHours |->
     (IF model.estimatedManufacturingTime \in {None, 0} THEN DefaultEstimatedTime
      ELSE model.estimatedManufacturingTime),
   startedAt |-> None, completedAt |-> None, timeTracker |-> NoTracker]

NewCard(model, modelId, orderId, i, quantity, dueDate, components) ==
  [orderId |-> orderId, cardNumber |-> i, totalCards |-> quantity,
   modelId |-> modelId, quantity |-> CardQuantity, dueDate |-> dueDate,
   status |-> PENDING, priority |-> "normal",
   components |-> JsonClone(JsonClone(components)),
   estimatedHours |->
     (IF model.estimatedManufacturingTime \in {None, 0} THEN DefaultEstimatedTime
      ELSE model.estimatedManufacturingTime),
   startedAt |-> None, completedAt |-> None, timeTracker |-> NoTracker]

\* ------------------------------------------------------------------- state
NoPauseLog == [pausedAt |-> None, count |-> 0, sumUnits |-> 0, sumRounded |-> 0]

Init ==
  /\ inventory = Catalog
  /\ orders = <<>>
  /\ cards = <<>>
  /\ nextOrderId = 1
  /\ nextCardId = 1
  /\ now = 0
  /\ res = [op |-> "init", kind |-> "none", id |-> 0, comp |-> "", outcome |-> OK]
  /\ pauseLog = [order |-> <<>>, card |-> <<>>]
  /\ inflight = {}

\* a request that is served in one piece answers and leaves the requests that
\* are being served step by step where they are
Respond(op, kind, id, comp, outcome) ==
  /\ res' = [op |-> op, kind |-> kind, id |-> id, comp |-> comp, outcome |-> outcome]
  /\ UNCHANGED inflight

\* the clock advances between requests
Tick(limit) ==
  /\ now < limit
  /\ now' = now + 1
  /\ res' = [op |-> "tick", kind |-> "none", id |-> 0, comp |-> "", outcome |-> OK]
  /\ UNCHANGED <<inventory, orders, cards, nextOrderId, nextCardId, pauseLog, inflight>>

\* ------------------------------------------------- pause bookkeeping (history)
\* the pause intervals a tracker has really gone through, kept beside the stored
\* tracker: pausedAt is the reading at the last pause, sumUnits the total length
\* of the closed intervals, sumRounded the total of their lengths rounded to minutes
LogStart(log) == NoPauseLog
LogPause(log, t) == [log EXCEPT !.pausedAt = t]
LogResume(log, t) ==
  [log EXCEPT !.pausedAt = None, !.count = @ + 1,
              !.sumUnits = @ + (t - log.pausedAt),
              !.sumRounded = @ + RoundMinutes(t - log.pausedAt)]

\* --------------------------------------------------------- order use cases
\* ManufacturingOrderUseCases.createManufacturingOrder with createMultipleProductionCards
createManufacturingOrder(modelId, quantity, componentIds, dueDate) ==
  LET model == InvFindById(inventory, modelId)
      components ==
        IF Len(componentIds) > 0 THEN ResolveComponents(inventory, componentIds)
        ELSE IF Len(model.components) > 0 THEN ResolveComponents(inventory, model.components)
        ELSE <<>>
      id == nextOrderId
  IN  /\ nextOrderId <= MaxOrders
      /\ IF ~model.exists
           THEN /\ Respond("createManufacturingOrder", "order", 0, modelId, NotFound)
                /\ UNCHANGED <<inventory, orders, cards, nextOrderId, nextCardId, now, pauseLog>>
         ELSE IF model.canManufacture = "false" \/ model.type # "model"
           THEN /\ Respond("createManufacturingOrder", "order", 0, modelId, InvalidState)
                /\ UNCHANGED <<inventory, orders, cards, nextOrderId, nextCardId, now, pauseLog>>
         ELSE /\ orders' = orders @@ (id :> NewOrder(model, modelId, quantity, dueDate, components))
              /\ cards' = cards @@
                   [c \in nextCardId..(nextCardId + quantity - 1) |->
                      NewCard(model, modelId, id, c - nextCardId + 1, quantity, dueDate, components)]
              /\ nextOrderId' = nextOrderId + 1
              /\ nextCardId' = nextCardId + quantity
              /\ pauseLog' = [order |-> pauseLog.order @@ (id :> NoPauseLog),
                              card |-> pauseLog.card @@
                                [c \in nextCardId..(nextCardId + quantity - 1) |-> NoPauseLog]]
              /\ Respond("createManufacturingOrder", "order", id, modelId, OK)
              /\ UNCHANGED <<inventory, now>>

\* createManufacturingOrder when a save fails: the order document is saved first
\* (orderSaved), then the cards one by one in a loop of awaits (cardsSaved of them
\* before the failing save); the exception reaches the controller, nothing is undone
createManufacturingOrderInterrupted(modelId, quantity, componentIds, dueDate, orderSaved, cardsSaved) ==
  LET model == InvFindById(inventory, modelId)
      components ==
        IF Len(componentIds) > 0 THEN ResolveComponents(inventory, componentIds)
        ELSE IF Len(model.components) > 0 THEN ResolveComponents(inventory, model.components)
        ELSE <<>>
      id == nextOrderId
      saved == nextCardId..(nextCardId + cardsSaved - 1)
  IN  /\ nextOrderId <= MaxOrders
      /\ model.exists /\ model.canManufacture # "false" /\ model.type = "model"
      /\ cardsSaved < quantity
      /\ IF ~orderSaved
           THEN UNCHANGED <<orders, cards, nextOrderId, nextCardId, pauseLog>>
           ELSE /\ orders' = orders @@ (id :> NewOrder(model, modelId, quantity, dueDate, components))
                /\ cards' = cards @@
                     [c \in saved |->
                        NewCard(model, modelId, id, c - nextCardId + 1, quantity, dueDate, components)]
                /\ nextOrderId' = nextOrderId + 1
                /\ nextCardId' = nextCardId + cardsSaved
                /\ pauseLog' = [order |-> pauseLog.order @@ (id :> NoPauseLog),
                                card |-> pauseLog.card @@ [c \in saved |-> NoPauseLog]]
      /\ Respond("createManufacturingOrder", "order", 0, modelId, RepoError)
      /\ UNCHANGED <<inventory, now>>

\* ------------------------------------------- MongoManufacturingOrderRepository
\* a request body without any key
NoOrderUpdates ==
  [quantity |-> None, dueDate |-> None, status |-> "", notes |-> "", clientName |-> "",
   setComponents |-> FALSE, components |-> <<>>]
NoCardUpdates ==
  [status |-> "", priority |-> "", dueDate |-> None,
   setComponents |-> FALSE, components |-> <<>>]

\* { ...updates }: every key of the body is written; an absent key (None, "",
\* setComponents = FALSE) leaves the stored field
repo_update(o, updates) ==
  [o EXCEPT !.quantity = IF updates.quantity # None THEN updates.quantity ELSE @,
            !.dueDate = IF updates.dueDate # None THEN updates.dueDate ELSE @,
            !.status = IF updates.status # "" THEN updates.status ELSE @,
            !.notes = IF updates.notes # "" THEN updates.notes ELSE @,
            !.clientName = IF updates.clientName # "" THEN updates.clientName ELSE @,
            !.components = IF updates.setComponents THEN updates.components ELSE @]

repo_startProduction(o, t) ==
  [o EXCEPT !.status = IN_PROGRESS, !.startedAt = t, !.timeTracker = NewTracker(t)]

repo_pauseProduction(o, t) ==
  [o EXCEPT !.status = PAUSED, !.timeTracker = PauseTracker(@, t)]

repo_resumeProduction(o, t) ==
  [o EXCEPT !.status = IN_PROGRESS, !.timeTracker = ResumeTracker(@, t)]

repo_completeComponent(o, componentId, t) ==
  LET i == FindComponent(o.components, componentId)
  IN  [o EXCEPT !.components[i].isCompleted = TRUE,
                !.components[i].completedAt = t,
                !.components[i].quantityCompleted = o.components[i].quantityRequired]

repo_completeOrder(o, t) == [o EXCEPT !.status = COMPLETED, !.completedAt = t]

repo_cancelOrder(o) == [o EXCEPT !.status = CANCELLED]

repo_startComponentProduction(o, componentId, t) ==
  LET i == FindComponent(o.components, componentId)
  IN  [o EXCEPT !.components[i].timeTracker = NewTracker(t),
                !.components[i].startedAt = t]

repo_pauseComponentProduction(o, componentId, t) ==
  LET i == FindComponent(o.components, componentId)
  IN  [o EXCEPT !.components[i].timeTracker = PauseTracker(@, t)]

repo_resumeComponentProduction(o, componentId, t) ==
  LET i == FindComponent(o.components, componentId)
  IN  [o EXCEPT !.components[i].timeTracker = ResumeTracker(@, t)]

repo_updateComponentMaterials(o, componentId, materials) ==
  LET i == FindComponent(o.components, componentId)
  IN  [o EXCEPT !.components[i].materialUsage = materials]

repo_addMaterialToComponent(o, componentId, material) ==
  LET i == FindComponent(o.components, componentId)
  IN  [o EXCEPT !.components[i].materialUsage = Append(@, material)]

\* ------------------------------------------------ ManufacturingOrderUseCases
OrderFail(op, id, comp, outcome) ==
  /\ Respond(op, "order", id, comp, outcome)
  /\ UNCHANGED <<inventory, orders, cards, nextOrderId, nextCardId, now, pauseLog>>

OrderWrite(op, id, comp, o) ==
  /\ orders' = [orders EXCEPT ![id] = o]
  /\ Respond(op, "order", id, comp, OK)
  /\ UNCHANGED <<inventory, cards, nextOrderId, nextCardId, now>>

updateOrderUnlessCompleted(id, updates) ==
  IF id \notin DOMAIN orders THEN OrderFail("updateOrder", id, "", NotFound)
  ELSE IF orders[id].status = COMPLETED THEN OrderFail("updateOrder", id, "", InvalidState)
  ELSE /\ OrderWrite("updateOrder", id, "", repo_update(orders[id], updates))
       /\ UNCHANGED pauseLog

updateOrder(id, updates) ==
  IF id \notin DOMAIN orders THEN OrderFail("updateOrder", id, "", NotFound)
  ELSE IF orders[id].status = COMPLETED THEN OrderFail("updateOrder", id, "", InvalidState)
  ELSE IF orders[id].status = CANCELLED THEN OrderFail("updateOrder", id, "", InvalidState)
  ELSE /\ OrderWrite("updateOrder", id, "", repo_update(orders[id], updates))
       /\ UNCHANGED pauseLog

startProduction(id) ==
  IF id \notin DOMAIN orders THEN OrderFail("startProduction", id, "", NotFound)
  ELSE IF orders[id].status # PENDING THEN OrderFail("startProduction", id, "", InvalidState)
  ELSE /\ OrderWrite("startProduction", id, "", repo_startProduction(orders[id], now))
       /\ pauseLog' = [pauseLog EXCEPT !.order[id] = LogStart(@)]

pauseProduction(id) ==
  IF id \notin DOMAIN orders THEN OrderFail("pauseProduction", id, "", NotFound)
  ELSE IF orders[id].status # IN_PROGRESS THEN OrderFail("pauseProduction", id, "", InvalidState)
  ELSE /\ pauseLog.order[id].count < MaxPauses
       /\ OrderWrite("pauseProduction", id, "", repo_pauseProduction(orders[id], now))
       /\ pauseLog' = [pauseLog EXCEPT !.order[id] = LogPause(@, now)]

resumeProduction(id) ==
  IF id \notin DOMAIN orders THEN OrderFail("resumeProduction", id, "", NotFound)
  ELSE IF orders[id].status # PAUSED THEN OrderFail("resumeProduction", id, "", InvalidState)
  ELSE IF ~CanResumeTracker(orders[id].timeTracker)
    THEN OrderFail("resumeProduction", id, "", RepoError)
  ELSE /\ OrderWrite("resumeProduction", id, "", repo_resumeProduction(orders[id], now))
       /\ pauseLog' = [pauseLog EXCEPT !.order[id] = LogResume(@, now)]

completeComponentNoGuard(id, componentId) ==
  IF id \notin DOMAIN orders THEN OrderFail("completeComponent", id, componentId, NotFound)
  ELSE IF orders[id].status # IN_PROGRESS /\ orders[id].status # PAUSED
    THEN OrderFail("completeComponent", id, componentId, InvalidState)
  ELSE IF FindComponent(orders[id].components, componentId) = 0
    THEN OrderFail("completeComponent", id, componentId, NotFound)
  ELSE /\ OrderWrite("completeComponent", id, componentId,
                     repo_completeComponent(orders[id], componentId, now))
       /\ UNCHANGED pauseLog

\* a completeComponent that writes before it looks at the status
completeComponentWriteFirst(id, componentId) ==
  IF id \notin DOMAIN orders THEN OrderFail("completeComponent", id, componentId, NotFound)
  ELSE IF FindComponent(orders[id].components, componentId) = 0
    THEN OrderFail("completeComponent", id, componentId, NotFound)
  ELSE IF orders[id].components[FindComponent(orders[id].components, componentId)].isCompleted
    THEN OrderFail("completeComponent", id, componentId, InvalidState)
  ELSE /\ orders' = [orders EXCEPT ![id] = repo_completeComponent(@, componentId, now)]
       /\ Respond("completeComponent", "order", id, componentId,
                  IF orders[id].status # IN_PROGRESS /\ orders[id].status # PAUSED
                    THEN InvalidState ELSE OK)
       /\ UNCHANGED <<inventory, cards, nextOrderId, nextCardId, now, pauseLog>>

completeComponent(id, componentId) ==
  IF id \notin DOMAIN orders THEN OrderFail("completeComponent", id, componentId, NotFound)
  ELSE IF orders[id].status # IN_PROGRESS /\ orders[id].status # PAUSED
    THEN OrderFail("completeComponent", id, componentId, InvalidState)
  ELSE IF FindComponent(orders[id].components, componentId) = 0
    THEN OrderFail("completeComponent", id, componentId, NotFound)
  ELSE IF orders[id].components[FindComponent(orders[id].components, componentId)].isCompleted
    THEN OrderFail("completeComponent", id, componentId, InvalidState)
  ELSE /\ OrderWrite("completeComponent", id, componentId,
                     repo_completeComponent(orders[id], componentId, now))
       /\ UNCHANGED pauseLog

\* the stock update of completeOrder / completeCard: findById, then updateQuantity;
\* a failure of either (inventoryOk = FALSE) is caught and logged
SyncInventoryOneUnit(inv, modelId, units, inventoryOk) ==
  IF inventoryOk /\ InvFindById(inv, modelId).exists
    THEN InvUpdateQuantity(inv, modelId, InvFindById(inv, modelId).quantity + 1)
    ELSE inv

\* a stock update that is applied although the inventory access failed
SyncInventoryDespiteFailure(inv, modelId, units, inventoryOk) ==
  IF InvFindById(inv, modelId).exists
    THEN InvUpdateQuantity(inv, modelId, InvFindById(inv, modelId).quantity + units)
    ELSE inv

SyncInventory(inv, modelId, units, inventoryOk) ==
  IF inventoryOk /\ InvFindById(inv, modelId).exists
    THEN InvUpdateQuantity(inv, modelId, InvFindById(inv, modelId).quantity + units)
    ELSE inv

completeOrder(id, inventoryOk) ==
  IF id \notin DOMAIN orders THEN OrderFail("completeOrder", id, "", NotFound)
  ELSE IF orders[id].status # IN_PROGRESS /\ orders[id].status # PAUSED
    THEN OrderFail("completeOrder", id, "", InvalidState)
  ELSE IF ~AllComponentsComplete(orders[id].components)
    THEN OrderFail("completeOrder", id, "", InvalidState)
  ELSE /\ InvFindById(inventory, orders[id].modelId).quantity + orders[id].quantity <= MaxStock
       /\ orders' = [orders EXCEPT ![id] = repo_completeOrder(@, now)]
       /\ inventory' = SyncInventory(inventory, orders[id].modelId, orders[id].quantity, inventoryOk)
       /\ Respond("completeOrder", "order", id, "", OK)
       /\ UNCHANGED <<cards, nextOrderId, nextCardId, now, pauseLog>>

cancelOrderRepeatable(id) ==
  IF id \notin DOMAIN orders THEN OrderFail("cancelOrder", id, "", NotFound)
  ELSE IF orders[id].status = COMPLETED THEN OrderFail("cancelOrder", id, "", InvalidState)
  ELSE /\ OrderWrite("cancelOrder", id, "", repo_cancelOrder(orders[id]))
       /\ UNCHANGED pauseLog

cancelOrder(id) ==
  IF id \notin DOMAIN orders THEN OrderFail("cancelOrder", id, "", NotFound)
  ELSE IF orders[id].status = COMPLETED THEN OrderFail("cancelOrder", id, "", InvalidState)
  ELSE IF orders[id].status = CANCELLED THEN OrderFail("cancelOrder", id, "", InvalidState)
  ELSE /\ OrderWrite("cancelOrder", id, "", repo_cancelOrder(orders[id]))
       /\ UNCHANGED pauseLog

\* ProductionCardUseCases.getCardsByOrder: the ids of the cards of an order
CardsOfOrder(cs, orderId) == {k \in DOMAIN cs : cs[k].orderId = orderId}

\* MongoProductionCardRepository.delete / MongoManufacturingOrderRepository.delete
DeleteDoc(docs, id) == [k \in DOMAIN docs \ {id} |-> docs[k]]

\* ProductionCardUseCases.deleteCardsByOrderId: the card collection after each
\* repository delete of the loop
RECURSIVE deleteCardsByOrderId(_, _)
deleteCardsByOrderId(cs, ids) ==
  IF ids = {} THEN <<>>
  ELSE LET k == CHOOSE k \in ids : \A j \in ids : k <= j
       IN  <<DeleteDoc(cs, k)>> \o deleteCardsByOrderId(DeleteDoc(cs, k), ids \ {k})

\* the stores after each repository delete of deleteOrder
deleteOrderStepsOrderFirst(os, cs, id) ==
  LET cardSteps == deleteCardsByOrderId(cs, CardsOfOrder(cs, id))
  IN  <<[orders |-> DeleteDoc(os, id), cards |-> cs]>>
        \o [i \in 1..Len(cardSteps) |-> [orders |-> DeleteDoc(os, id), cards |-> cardSteps[i]]]

deleteOrderSteps(os, cs, id) ==
  LET cardSteps == deleteCardsByOrderId(cs, CardsOfOrder(cs, id))
      lastCards == IF Len(cardSteps) = 0 THEN cs ELSE cardSteps[Len(cardSteps)]
  IN  [i \in 1..Len(cardSteps) |-> [orders |-> os, cards |-> cardSteps[i]]]
        \o <<[orders |-> DeleteDoc(os, id), cards |-> lastCards]>>

deleteOrder(id) ==
  IF id \notin DOMAIN orders THEN OrderFail("deleteOrder", id, "", NotFound)
  ELSE IF orders[id].status = IN_PROGRESS THEN OrderFail("deleteOrder", id, "", InvalidState)
  ELSE LET steps == deleteOrderSteps(orders, cards, id)
           last == steps[Len(steps)]
       IN  /\ cards' = last.cards
           /\ orders' = last.orders
           /\ pauseLog' = [order |-> [o \in DOMAIN last.orders |-> pauseLog.order[o]],
                           card |-> [c \in DOMAIN last.cards |-> pauseLog.card[c]]]
           /\ Respond("deleteOrder", "order", id, "", OK)
           /\ UNCHANGED <<inventory, nextOrderId, nextCardId, now>>

\* a start that resets the timer of a component that is running
startComponentProductionRestart(id, componentId) ==
  LET op == "startComponentProduction" IN
  IF id \notin DOMAIN orders THEN OrderFail(op, id, componentId, NotFound)
  ELSE IF orders[id].status # IN_PROGRESS /\ orders[id].status # PAUSED
    THEN OrderFail(op, id, componentId, InvalidState)
  ELSE IF FindComponent(orders[id].components, componentId) = 0
    THEN OrderFail(op, id, componentId, NotFound)
  ELSE LET component == orders[id].components[FindComponent(orders[id].components, componentId)] IN
    IF component.isCompleted THEN OrderFail(op, id, componentId, InvalidState)
    ELSE /\ OrderWrite(op, id, componentId,
                       repo_startComponentProduction(orders[id], componentId, now))
         /\ UNCHANGED pauseLog

\* component timers of an order
startComponentProduction(id, componentId) ==
  LET op == "startComponentProduction" IN
  IF id \notin DOMAIN orders THEN OrderFail(op, id, componentId, NotFound)
  ELSE IF orders[id].status # IN_PROGRESS /\ orders[id].status # PAUSED
    THEN OrderFail(op, id, componentId, InvalidState)
  ELSE IF FindComponent(orders[id].components, componentId) = 0
    THEN OrderFail(op, id, componentId, NotFound)
  ELSE LET component == orders[id].components[FindComponent(orders[id].components, componentId)] IN
    IF component.isCompleted THEN OrderFail(op, id, componentId, InvalidState)
    ELSE IF component.timeTracker.exists /\ ~component.timeTracker.isPaused
      THEN OrderFail(op, id, componentId, InvalidState)
    ELSE /\ OrderWrite(op, id, componentId,
                       repo_startComponentProduction(orders[id], componentId, now))
         /\ UNCHANGED pauseLog

pauseComponentProduction(id, componentId) ==
  LET op == "pauseComponentProduction" IN
  IF id \notin DOMAIN orders THEN OrderFail(op, id, componentId, NotFound)
  ELSE IF FindComponent(orders[id].components, componentId) = 0
    THEN OrderFail(op, id, componentId, NotFound)
  ELSE LET component == orders[id].components[FindComponent(orders[id].components, componentId)] IN
    IF ~component.timeTracker.exists THEN OrderFail(op, id, componentId, NotFound)
    ELSE IF component.timeTracker.isPaused THEN OrderFail(op, id, componentId, InvalidState)
    ELSE /\ OrderWrite(op, id, componentId,
                       repo_pauseComponentProduction(orders[id], componentId, now))
         /\ UNCHANGED pauseLog

resumeComponentProduction(id, componentId) ==
  LET op == "resumeComponentProduction" IN
  IF id \notin DOMAIN orders THEN OrderFail(op, id, componentId, NotFound)
  ELSE IF FindComponent(orders[id].components, componentId) = 0
    THEN OrderFail(op, id, componentId, NotFound)
  ELSE LET component == orders[id].components[FindComponent(orders[id].components, componentId)] IN
    IF ~component.timeTracker.exists THEN OrderFail(op, id, componentId, NotFound)
    ELSE IF ~component.timeTracker.isPaused THEN OrderFail(op, id, componentId, InvalidState)
    ELSE IF ~CanResumeTracker(component.timeTracker)
      THEN OrderFail(op, id, componentId, RepoError)
    ELSE /\ OrderWrite(op, id, componentId,
                       repo_resumeComponentProduction(orders[id], componentId, now))
         /\ UNCHANGED pauseLog

\* material usage of an order component
\* component.materialUsage?.find(m => m.materialId === materialId)?.plannedQuantity || 1
PlannedQuantityFor(materialUsage, materialId) ==
  IF \E k \in 1..Len(materialUsage) : materialUsage[k].materialId = materialId
    THEN LET k == CHOOSE k \in 1..Len(materialUsage) :
                    /\ materialUsage[k].materialId = materialId
                    /\ \A j \in 1..(k - 1) : materialUsage[j].materialId # materialId
         IN  IF materialUsage[k].plannedQuantity = 0 THEN DefaultPlannedQuantity
             ELSE materialUsage[k].plannedQuantity
    ELSE DefaultPlannedQuantity

\* the materialUsage list built by updateComponentMaterials from the request entries
BuildMaterialUsage(inv, existing, materials) ==
  LET found == SelectSeq(materials, LAMBDA m : InvFindById(inv, m.materialId).exists)
  IN  [k \in 1..Len(found) |->
         [materialId |-> found[k].materialId,
          plannedQuantity |-> PlannedQuantityFor(existing, found[k].materialId),
          actualQuantity |-> found[k].actualQuantity]]

updateComponentMaterials(id, componentId, materials) ==
  LET op == "updateComponentMaterials" IN
  IF id \notin DOMAIN orders THEN OrderFail(op, id, componentId, NotFound)
  ELSE IF orders[id].status # IN_PROGRESS /\ orders[id].status # PAUSED
    THEN OrderFail(op, id, componentId, InvalidState)
  ELSE IF FindComponent(orders[id].components, componentId) = 0
    THEN OrderFail(op, id, componentId, NotFound)
  ELSE LET component == orders[id].components[FindComponent(orders[id].components, componentId)] IN
    IF component.isCompleted THEN OrderFail(op, id, componentId, InvalidState)
    ELSE /\ OrderWrite(op, id, componentId,
                       repo_updateComponentMaterials(orders[id], componentId,
                          BuildMaterialUsage(inventory, component.materialUsage, materials)))
         /\ UNCHANGED pauseLog

addMaterialToComponent(id, componentId, materialId, plannedQuantity, actualQuantity) ==
  LET op == "addMaterialToComponent" IN
  IF id \notin DOMAIN orders THEN OrderFail(op, id, componentId, NotFound)
  ELSE IF FindComponent(orders[id].components, componentId) = 0
    THEN OrderFail(op, id, componentId, NotFound)
  ELSE IF ~InvFindById(inventory, materialId).exists
    THEN OrderFail(op, id, componentId, NotFound)
  ELSE /\ Len(orders[id].components[FindComponent(orders[id].components, componentId)].materialUsage)
            < MaxMaterials
       /\ OrderWrite(op, id, componentId,
                     repo_addMaterialToComponent(orders[id], componentId,
                        [materialId |-> materialId, plannedQuantity |-> plannedQuantity,
                         actualQuantity |-> actualQuantity]))
       /\ UNCHANGED pauseLog

\* the sku setters of the schema (uppercase) over the SKUs of the requests
ToUpperCase(sku) ==
  CASE sku = "m1" -> "M1"
    [] sku = "x1" -> "X1"
    [] sku = "n1" -> "N1"
    [] OTHER -> sku

\* MongoInventoryRepository.findBySku: the id of the item stored under
\* sku.toUpperCase(), or "" for null
findBySku(inv, sku) ==
  LET found == {i \in ItemIds : inv[i].exists /\ inv[i].sku = ToUpperCase(sku)}
  IN  IF found = {} THEN "" ELSE CHOOSE i \in found : TRUE

\* the answer of an inventory request, with the body of the request
ItemRespond(op, id, body, outcome) ==
  /\ res' = [op |-> op, kind |-> "item", id |-> 0, comp |-> id, outcome |-> outcome,
             body |-> body]
  /\ UNCHANGED inflight

ItemFail(op, id, body, outcome) ==
  /\ ItemRespond(op, id, body, outcome)
  /\ UNCHANGED <<inventory, orders, cards, nextOrderId, nextCardId, now, pauseLog>>

\* InventoryUseCases.createInventoryItem of a material; the document takes the place
\* of a deleted one in the catalog. save() runs the validators (quantity min 0).
createInventoryItem(sku, quantity) ==
  LET op == "createInventoryItem"
      body == [sku |-> sku, quantity |-> quantity]
      free == {i \in ItemIds : ~inventory[i].exists}
  IN  IF findBySku(inventory, sku) # "" THEN ItemFail(op, "", body, InvalidState)
      ELSE IF quantity < 0 THEN ItemFail(op, "", body, RepoError)
      ELSE /\ free # {}
           /\ LET id == CHOOSE i \in free : TRUE
              IN  /\ inventory' =
                       [inventory EXCEPT
                          ![id] = [exists |-> TRUE, type |-> "material",
                                   sku |-> ToUpperCase(sku), quantity |-> quantity,
                                   canManufacture |-> "false",
                                   estimatedManufacturingTime |-> None,
                                   components |-> <<>>]]
                  /\ ItemRespond(op, id, body, OK)
           /\ UNCHANGED <<orders, cards, nextOrderId, nextCardId, now, pauseLog>>

\* InventoryUseCases.updateInventoryItem with a body that carries canManufacture and
\* estimatedManufacturingTime (null or a number >= 0, which the validators accept),
\* and possibly sku ("" when absent) and quantity (None when absent); the update
\* runs the validators (quantity min 0)
updateInventoryItem(id, updates) ==
  LET op == "updateInventoryItem" IN
  IF ~InvFindById(inventory, id).exists THEN ItemFail(op, id, updates, NotFound)
  ELSE IF /\ updates.sku # "" /\ updates.sku # inventory[id].sku
          /\ findBySku(inventory, updates.sku) \notin {"", id}
    THEN ItemFail(op, id, updates, InvalidState)
  ELSE IF updates.quantity # None /\ updates.quantity < 0
    THEN ItemFail(op, id, updates, RepoError)
  ELSE /\ inventory' =
            [inventory EXCEPT
               ![id].canManufacture = updates.canManufacture,
               ![id].estimatedManufacturingTime = updates.estimatedManufacturingTime,
               ![id].sku = IF updates.sku # "" THEN ToUpperCase(updates.sku) ELSE @,
               ![id].quantity = IF updates.quantity # None THEN updates.quantity ELSE @]
       /\ ItemRespond(op, id, updates, OK)
       /\ UNCHANGED <<orders, cards, nextOrderId, nextCardId, now, pauseLog>>

\* InventoryUseCases.updateQuantity
updateQuantity(id, quantity) ==
  LET op == "updateQuantity" IN
  IF quantity < 0 THEN ItemFail(op, id, quantity, InvalidState)
  ELSE IF ~InvFindById(inventory, id).exists THEN ItemFail(op, id, quantity, NotFound)
  ELSE /\ inventory' = InvUpdateQuantity(inventory, id, quantity)
       /\ ItemRespond(op, id, quantity, OK)
       /\ UNCHANGED <<orders, cards, nextOrderId, nextCardId, now, pauseLog>>

\* MongoInventoryRepository.bulkUpdateQuantities: one updateOne per entry, in order
RECURSIVE InvBulkWrite(_, _)
InvBulkWrite(inv, updates) ==
  IF updates = <<>> THEN inv
  ELSE InvBulkWrite(InvUpdateQuantity(inv, updates[1].id, updates[1].quantity), Tail(updates))

\* a bulk update that checks each entry as it writes it
bulkUpdateQuantitiesEntryByEntry(updates) ==
  LET op == "bulkUpdateQuantities"
      bad == {k \in 1..Len(updates) : updates[k].quantity < 0}
      first == IF bad = {} THEN Len(updates) + 1 ELSE CHOOSE k \in bad : \A j \in bad : k <= j
  IN  /\ inventory' = InvBulkWrite(inventory, SubSeq(updates, 1, first - 1))
      /\ ItemRespond(op, "", updates, IF bad = {} THEN OK ELSE InvalidState)
      /\ UNCHANGED <<orders, cards, nextOrderId, nextCardId, now, pauseLog>>

\* InventoryUseCases.bulkUpdateQuantities
bulkUpdateQuantities(updates) ==
  LET op == "bulkUpdateQuantities" IN
  IF \E k \in 1..Len(updates) : updates[k].quantity < 0
    THEN ItemFail(op, "", updates, InvalidState)
  ELSE /\ inventory' = InvBulkWrite(inventory, updates)
       /\ ItemRespond(op, "", updates, OK)
       /\ UNCHANGED <<orders, cards, nextOrderId, nextCardId, now, pauseLog>>

\* InventoryUseCases.deleteInventoryItem
deleteInventoryItem(id) ==
  IF ~InvFindById(inventory, id).exists
    THEN /\ Respond("deleteInventoryItem", "item", 0, id, NotFound)
         /\ UNCHANGED <<inventory, orders, cards, nextOrderId, nextCardId, now, pauseLog>>
    ELSE /\ inventory' = [inventory EXCEPT ![id] = NoItem]
         /\ Respond("deleteInventoryItem", "item", 0, id, OK)
         /\ UNCHANGED <<orders, cards, nextOrderId, nextCardId, now, pauseLog>>

\* ----------------------------------------------- MongoProductionCardRepository
cardRepo_update(c, updates) ==
  [c EXCEPT !.status = IF updates.status # "" THEN updates.status ELSE @,
            !.priority = IF updates.priority # "" THEN updates.priority ELSE @,
            !.dueDate = IF updates.dueDate # None THEN updates.dueDate ELSE @,
            !.components = IF updates.setComponents THEN updates.components ELSE @]

\* ProductionCardModel.find(query): the stored cards the query selects, in
\* ascending order of id
RECURSIVE IdsAscending(_)
IdsAscending(S) ==
  IF S = {} THEN <<>>
  ELSE LET m == CHOOSE x \in S : \A y \in S : x <= y
       IN  <<m>> \o IdsAscending(S \ {m})

\* the query findAll builds from the filters; an absent filter is "" (None for
\* orderId). The overdue filter assigns query.status after the status filter did.
MatchesQuery(c, filters, t) ==
  /\ IF filters.overdue
       THEN c.dueDate < t /\ c.status \notin {COMPLETED, CANCELLED}
       ELSE filters.status = "" \/ c.status = filters.status
  /\ filters.priority = "" \/ c.priority = filters.priority
  /\ filters.orderId = None \/ c.orderId = filters.orderId
  /\ filters.modelId = "" \/ c.modelId = filters.modelId

\* priorityOrder[priority] || 3
priorityOrder(priority) ==
  CASE priority = "urgent" -> 1
    [] priority = "high" -> 2
    [] priority = "normal" -> 3
    [] priority = "low" -> 4
    [] OTHER -> 3

\* the comparator handed to Array.prototype.sort
CompareCards(a, b) ==
  IF priorityOrder(a.priority) # priorityOrder(b.priority)
    THEN priorityOrder(a.priority) - priorityOrder(b.priority)
    ELSE a.dueDate - b.dueDate

\* Array.prototype.sort is stable: an element goes behind every element that
\* does not compare greater
RECURSIVE InsertCard(_, _, _)
InsertCard(sorted, id, cs) ==
  IF sorted = <<>> THEN <<id>>
  ELSE IF CompareCards(cs[id], cs[Head(sorted)]) < 0 THEN <<id>> \o sorted
  ELSE <<Head(sorted)>> \o InsertCard(Tail(sorted), id, cs)

RECURSIVE SortCards(_, _)
SortCards(ids, cs) ==
  IF ids = <<>> THEN <<>>
  ELSE InsertCard(SortCards(SubSeq(ids, 1, Len(ids) - 1), cs), ids[Len(ids)], cs)

\* MongoProductionCardRepository.findAll: the ids of the returned cards, in order
findAll(cs, filters, t) ==
  SortCards(IdsAscending({id \in DOMAIN cs : MatchesQuery(cs[id], filters, t)}), cs)

cardRepo_startProduction(c, t) ==
  [c EXCEPT !.status = IN_PROGRESS, !.startedAt = t, !.timeTracker = NewTracker(t)]

cardRepo_pauseProduction(c, t) ==
  [c EXCEPT !.status = PAUSED, !.timeTracker = PauseTracker(@, t)]

cardRepo_resumeProductionKeepStatus(c, t) ==
  [c EXCEPT !.timeTracker = ResumeTracker(@, t)]

cardRepo_resumeProduction(c, t) ==
  [c EXCEPT !.status = IN_PROGRESS, !.timeTracker = ResumeTracker(@, t)]

cardRepo_completeComponent(c, componentId, t) ==
  LET i == FindComponent(c.components, componentId)
  IN  [c EXCEPT !.components[i].isCompleted = TRUE,
                !.components[i].completedAt = t,
                !.components[i].quantityCompleted = c.components[i].quantityRequired]

cardRepo_completeCard(c, t) == [c EXCEPT !.status = COMPLETED, !.completedAt = t]

cardRepo_cancelCard(c) == [c EXCEPT !.status = CANCELLED]

cardRepo_startComponentProduction(c, componentId, t) ==
  LET i == FindComponent(c.components, componentId)
  IN  [c EXCEPT !.components[i].timeTracker = NewTracker(t),
                !.components[i].startedAt = t]

cardRepo_pauseComponentProduction(c, componentId, t) ==
  LET i == FindComponent(c.components, componentId)
  IN  [c EXCEPT !.components[i].timeTracker = PauseTracker(@, t)]

cardRepo_resumeComponentProduction(c, componentId, t) ==
  LET i == FindComponent(c.components, componentId)
  IN  [c EXCEPT !.components[i].timeTracker = ResumeTracker(@, t)]

cardRepo_updateComponentMaterials(c, componentId, materials) ==
  LET i == FindComponent(c.components, componentId)
  IN  [c EXCEPT !.components[i].materialUsage = materials]

cardRepo_addMaterialToComponent(c, componentId, material) ==
  LET i == FindComponent(c.components, componentId)
  IN  [c EXCEPT !.components[i].materialUsage = Append(@, material)]

\* ---------------------------------------------------- ProductionCardUseCases
CardFail(op, id, comp, outcome) ==
  /\ Respond(op, "card", id, comp, outcome)
  /\ UNCHANGED <<inventory, orders, cards, nextOrderId, nextCardId, now, pauseLog>>

CardWriteSiblings(op, id, comp, c) ==
  /\ cards' = [k \in DOMAIN cards |->
                 IF cards[k].orderId = cards[id].orderId
                   THEN [cards[k] EXCEPT !.components = c.components,
                                         !.status = c.status, !.timeTracker = c.timeTracker,
                                         !.startedAt = c.startedAt, !.completedAt = c.completedAt,
                                         !.priority = c.priority]
                   ELSE cards[k]]
  /\ Respond(op, "card", id, comp, OK)
  /\ UNCHANGED <<inventory, orders, nextOrderId, nextCardId, now>>

CardWrite(op, id, comp, c) ==
  /\ cards' = [cards EXCEPT ![id] = c]
  /\ Respond(op, "card", id, comp, OK)
  /\ UNCHANGED <<inventory, orders, nextOrderId, nextCardId, now>>

\* ManufacturingOrderEntity.isOverdue / ProductionCardEntity.isOverdue
isOverdue(doc, t) == t > doc.dueDate /\ doc.status # COMPLETED

\* getOverdueOrders / getOverdueCards: the ids of the documents the query selects
getOverdue(docs, t) ==
  {id \in DOMAIN docs : docs[id].dueDate < t /\ docs[id].status \notin {COMPLETED, CANCELLED}}

\* ProductionCardController.getAllCards: the response carries the filters of the
\* request and the list that is returned
getAllCards(filters) ==
  /\ res' = [op |-> "getAllCards", kind |-> "card", id |-> 0, comp |-> "", outcome |-> OK,
             filters |-> filters, data |-> findAll(cards, filters, now)]
  /\ UNCHANGED <<inventory, orders, cards, nextOrderId, nextCardId, now, pauseLog, inflight>>

\* ProductionCardUseCases.updateCardPriority
updateCardPriorityUnlessCompleted(id, priority) ==
  IF id \notin DOMAIN cards THEN CardFail("updateCardPriority", id, priority, NotFound)
  ELSE IF cards[id].status = COMPLETED
    THEN CardFail("updateCardPriority", id, priority, InvalidState)
  ELSE /\ CardWrite("updateCardPriority", id, priority,
                    cardRepo_update(cards[id], [NoCardUpdates EXCEPT !.priority = priority]))
       /\ UNCHANGED pauseLog

updateCardPriority(id, priority) ==
  IF id \notin DOMAIN cards THEN CardFail("updateCardPriority", id, priority, NotFound)
  ELSE IF cards[id].status = COMPLETED \/ cards[id].status = CANCELLED
    THEN CardFail("updateCardPriority", id, priority, InvalidState)
  ELSE /\ CardWrite("updateCardPriority", id, priority,
                    cardRepo_update(cards[id], [NoCardUpdates EXCEPT !.priority = priority]))
       /\ UNCHANGED pauseLog

\* ProductionCardUseCases.deleteCard
deleteCard(id) ==
  IF id \notin DOMAIN cards THEN CardFail("deleteCard", id, "", NotFound)
  ELSE /\ cards' = DeleteDoc(cards, id)
       /\ pauseLog' = [pauseLog EXCEPT !.card = DeleteDoc(@, id)]
       /\ Respond("deleteCard", "card", id, "", OK)
       /\ UNCHANGED <<inventory, orders, nextOrderId, nextCardId, now>>

updateCard(id, updates) ==
  IF id \notin DOMAIN cards THEN CardFail("updateCard", id, "", NotFound)
  ELSE /\ CardWrite("updateCard", id, "", cardRepo_update(cards[id], updates))
       /\ UNCHANGED pauseLog

card_startProduction(id) ==
  IF id \notin DOMAIN cards THEN CardFail("startProduction", id, "", NotFound)
  ELSE IF cards[id].status # PENDING THEN CardFail("startProduction", id, "", InvalidState)
  ELSE /\ CardWrite("startProduction", id, "", cardRepo_startProduction(cards[id], now))
       /\ pauseLog' = [pauseLog EXCEPT !.card[id] = LogStart(@)]

card_pauseProduction(id) ==
  IF id \notin DOMAIN cards THEN CardFail("pauseProduction", id, "", NotFound)
  ELSE IF cards[id].status # IN_PROGRESS THEN CardFail("pauseProduction", id, "", InvalidState)
  ELSE /\ pauseLog.card[id].count < MaxPauses
       /\ CardWrite("pauseProduction", id, "", cardRepo_pauseProduction(cards[id], now))
       /\ pauseLog' = [pauseLog EXCEPT !.card[id] = LogPause(@, now)]

card_resumeProduction(id) ==
  IF id \notin DOMAIN cards THEN CardFail("resumeProduction", id, "", NotFound)
  ELSE IF cards[id].status # PAUSED THEN CardFail("resumeProduction", id, "", InvalidState)
  ELSE IF ~CanResumeTracker(cards[id].timeTracker)
    THEN CardFail("resumeProduction", id, "", RepoError)
  ELSE /\ CardWrite("resumeProduction", id, "", cardRepo_resumeProduction(cards[id], now))
       /\ pauseLog' = [pauseLog EXCEPT !.card[id] = LogResume(@, now)]

card_completeComponent(id, componentId) ==
  IF id \notin DOMAIN cards THEN CardFail("completeComponent", id, componentId, NotFound)
  ELSE IF cards[id].status # IN_PROGRESS /\ cards[id].status # PAUSED
    THEN CardFail("completeComponent", id, componentId, InvalidState)
  ELSE IF FindComponent(cards[id].components, componentId) = 0
    THEN CardFail("completeComponent", id, componentId, NotFound)
  ELSE IF cards[id].components[FindComponent(cards[id].components, componentId)].isCompleted
    THEN CardFail("completeComponent", id, componentId, InvalidState)
  ELSE /\ CardWrite("completeComponent", id, componentId,
                    cardRepo_completeComponent(cards[id], componentId, now))
       /\ UNCHANGED pauseLog

\* a completeCard that also completes the parent order with its last card
completeCardCompletesOrder(id, inventoryOk) ==
  IF id \notin DOMAIN cards THEN CardFail("completeCard", id, "", NotFound)
  ELSE IF cards[id].status # IN_PROGRESS /\ cards[id].status # PAUSED
    THEN CardFail("completeCard", id, "", InvalidState)
  ELSE IF ~AllComponentsComplete(cards[id].components)
    THEN CardFail("completeCard", id, "", InvalidState)
  ELSE /\ InvFindById(inventory, cards[id].modelId).quantity + 1 <= MaxStock
       /\ cards' = [cards EXCEPT ![id] = cardRepo_completeCard(@, now)]
       /\ inventory' = SyncInventory(inventory, cards[id].modelId, 1, inventoryOk)
       /\ orders' =
            IF /\ cards[id].orderId \in DOMAIN orders
               /\ \A k \in CardsOfOrder(cards, cards[id].orderId) \ {id} :
                    cards[k].status = COMPLETED
              THEN [orders EXCEPT ![cards[id].orderId] = repo_completeOrder(@, now)]
              ELSE orders
       /\ Respond("completeCard", "card", id, "", OK)
       /\ UNCHANGED <<nextOrderId, nextCardId, now, pauseLog>>

completeCard(id, inventoryOk) ==
  IF id \notin DOMAIN cards THEN CardFail("completeCard", id, "", NotFound)
  ELSE IF cards[id].status # IN_PROGRESS /\ cards[id].status # PAUSED
    THEN CardFail("completeCard", id, "", InvalidState)
  ELSE IF ~AllComponentsComplete(cards[id].components)
    THEN CardFail("completeCard", id, "", InvalidState)
  ELSE /\ InvFindById(inventory, cards[id].modelId).quantity + 1 <= MaxStock
       /\ cards' = [cards EXCEPT ![id] = cardRepo_completeCard(@, now)]
       /\ inventory' = SyncInventory(inventory, cards[id].modelId, 1, inventoryOk)
       /\ Respond("completeCard", "card", id, "", OK)
       /\ UNCHANGED <<orders, nextOrderId, nextCardId, now, pauseLog>>

cancelCard(id) ==
  IF id \notin DOMAIN cards THEN CardFail("cancelCard", id, "", NotFound)
  ELSE IF cards[id].status = COMPLETED THEN CardFail("cancelCard", id, "", InvalidState)
  ELSE /\ CardWrite("cancelCard", id, "", cardRepo_cancelCard(cards[id]))
       /\ UNCHANGED pauseLog

\* component timers of a card
card_startComponentProduction(id, componentId) ==
  LET op == "startComponentProduction" IN
  IF id \notin DOMAIN cards THEN CardFail(op, id, componentId, NotFound)
  ELSE IF FindComponent(cards[id].components, componentId) = 0
    THEN CardFail(op, id, componentId, NotFound)
  ELSE IF cards[id].components[FindComponent(cards[id].components, componentId)].isCompleted
    THEN CardFail(op, id, componentId, InvalidState)
  ELSE /\ CardWrite(op, id, componentId,
                    cardRepo_startComponentProduction(cards[id], componentId, now))
       /\ UNCHANGED pauseLog

card_pauseComponentProduction(id, componentId) ==
  LET op == "pauseComponentProduction" IN
  IF id \notin DOMAIN cards THEN CardFail(op, id, componentId, RepoError)
  ELSE IF FindComponent(cards[id].components, componentId) = 0
    THEN CardFail(op, id, componentId, RepoError)
  ELSE /\ CardWrite(op, id, componentId,
                    cardRepo_pauseComponentProduction(cards[id], componentId, now))
       /\ UNCHANGED pauseLog

card_resumeComponentProduction(id, componentId) ==
  LET op == "resumeComponentProduction" IN
  IF id \notin DOMAIN cards THEN CardFail(op, id, componentId, RepoError)
  ELSE IF FindComponent(cards[id].components, componentId) = 0
    THEN CardFail(op, id, componentId, RepoError)
  ELSE IF ~CanResumeTracker(
            cards[id].components[FindComponent(cards[id].components, componentId)].timeTracker)
    THEN CardFail(op, id, componentId, RepoError)
  ELSE /\ CardWrite(op, id, componentId,
                    cardRepo_resumeComponentProduction(cards[id], componentId, now))
       /\ UNCHANGED pauseLog

\* material usage of a card component: the request entries are stored as given
card_updateComponentMaterials(id, componentId, materials) ==
  LET op == "updateComponentMaterials" IN
  IF id \notin DOMAIN cards THEN CardFail(op, id, componentId, RepoError)
  ELSE IF FindComponent(cards[id].components, componentId) = 0
    THEN CardFail(op, id, componentId, RepoError)
  ELSE /\ CardWrite(op, id, componentId,
                    cardRepo_updateComponentMaterials(cards[id], componentId, materials))
       /\ UNCHANGED pauseLog

card_addMaterialToComponent(id, componentId, material) ==
  LET op == "addMaterialToComponent" IN
  IF id \notin DOMAIN cards THEN CardFail(op, id, componentId, RepoError)
  ELSE IF FindComponent(cards[id].components, componentId) = 0
    THEN CardFail(op, id, componentId, RepoError)
  ELSE /\ Len(cards[id].components[FindComponent(cards[id].components, componentId)].materialUsage)
            < MaxMaterials
       /\ CardWrite(op, id, componentId,
                    cardRepo_addMaterialToComponent(cards[id], componentId, material))
       /\ UNCHANGED pauseLog

\* ------------------------------------------------------------ request inputs
ModelIdsIn == {"m1", "c1", UnknownId}
ComponentListsIn == {<<>>, <<"c1", UnknownId>>}
OrderIdsIn == 1..MaxOrders
CardIdsIn == 1..(MaxOrders * MaxQuantity)
ComponentIdsIn == {"c1", "c2"}
OrderUpdatesIn ==
  {[NoOrderUpdates EXCEPT !.dueDate = MaxTime + 2],
   [NoOrderUpdates EXCEPT !.quantity = MaxQuantity, !.notes = "rush",
                          !.clientName = "other"],
   [NoOrderUpdates EXCEPT !.status = COMPLETED]}
CardUpdatesIn ==
  {[NoCardUpdates EXCEPT !.priority = "high"],
   [NoCardUpdates EXCEPT !.status = IN_PROGRESS]}
\* bodies that carry a components array: an empty one, and one fresh component
OrderComponentUpdatesIn ==
  {[NoOrderUpdates EXCEPT !.setComponents = TRUE],
   [NoOrderUpdates EXCEPT !.setComponents = TRUE, !.components = <<NewComponent("c1")>>]}
CardComponentUpdatesIn ==
  {[NoCardUpdates EXCEPT !.setComponents = TRUE],
   [NoCardUpdates EXCEPT !.setComponents = TRUE, !.components = <<NewComponent("c1")>>]}
\* bodies of updateCard that move a card in the listing: a priority of the
\* enumeration, a priority outside it, and a due date already reached
ListUpdatesIn ==
  {[NoCardUpdates EXCEPT !.priority = "urgent"],
   [NoCardUpdates EXCEPT !.priority = "low"],
   [NoCardUpdates EXCEPT !.priority = "rush"],
   [NoCardUpdates EXCEPT !.dueDate = 0]}
\* query strings of the listing; the controller drops the keys that are absent
\* and turns overdue into a boolean
FiltersIn ==
  [status : {"", PENDING, IN_PROGRESS}, priority : {"", "normal"}, orderId : {None, 1},
   modelId : {"", "m1"}, overdue : BOOLEAN]
MaterialsIn ==
  {<<>>, <<[materialId |-> "x1", actualQuantity |-> 2]>>,
   <<[materialId |-> UnknownId, actualQuantity |-> 1], [materialId |-> "x1", actualQuantity |-> 2]>>}
CardMaterialsIn == {<<>>, <<[materialId |-> "x1", plannedQuantity |-> 1, actualQuantity |-> 2]>>}

InventoryUpdatesIn ==
  [canManufacture : {"true", "false", "null"},
   estimatedManufacturingTime : {None, 0, 3}, sku : {""}, quantity : {None}]

\* ------------------------------------------------------------- next-state
CreateStep(quantities) ==
  \E m \in ModelIdsIn, q \in quantities, cl \in ComponentListsIn :
    createManufacturingOrder(m, q, cl, MaxTime + 1)

OrderLifecycleStep ==
  \E id \in OrderIdsIn :
    \/ startProduction(id)
    \/ pauseProduction(id)
    \/ resumeProduction(id)
    \/ cancelOrder(id)
    \/ \E ok \in BOOLEAN : completeOrder(id, ok)
    \/ \E c \in ComponentIdsIn : completeComponent(id, c)

OrderUpdateStep ==
  \E id \in OrderIdsIn :
    \/ \E u \in OrderUpdatesIn : updateOrder(id, u)
    \/ deleteOrder(id)

OrderComponentStep ==
  \E id \in OrderIdsIn, c \in ComponentIdsIn :
    \/ startComponentProduction(id, c)
    \/ pauseComponentProduction(id, c)
    \/ resumeComponentProduction(id, c)
    \/ \E ms \in MaterialsIn : updateComponentMaterials(id, c, ms)
    \/ \E planned \in {0, 1} : addMaterialToComponent(id, c, "x1", planned, 0)

CardLifecycleStep(ids) ==
  \E id \in ids :
    \/ card_startProduction(id)
    \/ card_pauseProduction(id)
    \/ card_resumeProduction(id)
    \/ cancelCard(id)
    \/ \E ok \in BOOLEAN : completeCard(id, ok)
    \/ \E c \in ComponentIdsIn : card_completeComponent(id, c)

CardUpdateStep ==
  \E id \in CardIdsIn, u \in CardUpdatesIn : updateCard(id, u)

CardComponentStep(ids) ==
  \E id \in ids, c \in ComponentIdsIn :
    \/ card_startComponentProduction(id, c)
    \/ card_pauseComponentProduction(id, c)
    \/ card_resumeComponentProduction(id, c)
    \/ \E ms \in CardMaterialsIn : card_updateComponentMaterials(id, c, ms)
    \/ card_addMaterialToComponent(id, c,
         [materialId |-> "x1", plannedQuantity |-> 1, actualQuantity |-> 0])

InventoryStep == deleteInventoryItem("m1")

Next ==
  \/ CreateStep(1..MaxQuantity)
  \/ OrderLifecycleStep
  \/ OrderUpdateStep
  \/ OrderComponentStep
  \/ CardLifecycleStep(CardIdsIn)
  \/ CardUpdateStep
  \/ CardComponentStep(CardIdsIn)
  \/ InventoryStep
  \/ Tick(MaxTime)

Spec == Init /\ [][Next]_vars

\* ------------------------------------- specification of the order lifecycle
NextOrder ==
  \/ CreateStep({1})
  \/ OrderLifecycleStep
  \/ OrderUpdateStep
  \/ Tick(MaxTime)

SpecOrder == Init /\ [][NextOrder]_vars

\* --------------------- specification of the component operations of an order
NextOrderComponent ==
  \/ CreateStep({1})
  \/ \E id \in OrderIdsIn : startProduction(id) \/ cancelOrder(id)
  \/ \E id \in OrderIdsIn : completeOrder(id, TRUE)
  \/ \E id \in OrderIdsIn, c \in ComponentIdsIn : completeComponent(id, c)
  \/ OrderComponentStep

SpecOrderComponent == Init /\ [][NextOrderComponent]_vars

\* ------------------------------- specification of completion and stock updates
NextComplete ==
  \/ CreateStep(1..MaxQuantity)
  \/ OrderLifecycleStep
  \/ CardLifecycleStep({1})
  \/ InventoryStep

SpecComplete == Init /\ [][NextComplete]_vars

\* ------------------ specification of the component lists of an order's cards
NextComponent ==
  \/ \E q \in 1..MaxQuantity : createManufacturingOrder("m1", q, <<"c1">>, MaxTime + 1)
  \/ \E id \in OrderIdsIn : startProduction(id)
  \/ card_startProduction(1)
  \/ \E id \in OrderIdsIn : completeComponent(id, "c1")
  \/ card_completeComponent(1, "c1")
  \/ \E id \in OrderIdsIn :
       \/ startComponentProduction(id, "c1")
       \/ pauseComponentProduction(id, "c1")
       \/ resumeComponentProduction(id, "c1")
       \/ \E ms \in MaterialsIn : updateComponentMaterials(id, "c1", ms)
       \/ addMaterialToComponent(id, "c1", "x1", 1, 0)
  \/ \E id \in {1} :
       \/ card_startComponentProduction(id, "c1")
       \/ card_pauseComponentProduction(id, "c1")
       \/ card_resumeComponentProduction(id, "c1")
       \/ \E ms \in CardMaterialsIn : card_updateComponentMaterials(id, "c1", ms)
       \/ card_addMaterialToComponent(id, "c1",
            [materialId |-> "x1", plannedQuantity |-> 1, actualQuantity |-> 0])
  \/ Tick(MaxTime)

SpecComponent == Init /\ [][NextComponent]_vars

\* ------------------------------------------------- specification of the timers
\* the number of time trackers stored in the orders and cards
TrackerCount(os, cs) ==
  LET inList(components) ==
        Cardinality({i \in 1..Len(components) : components[i].timeTracker.exists})
      RECURSIVE sumOver(_, _)
      sumOver(docs, ids) ==
        IF ids = {} THEN 0
        ELSE LET k == CHOOSE k \in ids : TRUE
             IN  (IF docs[k].timeTracker.exists THEN 1 ELSE 0)
                 + inList(docs[k].components) + sumOver(docs, ids \ {k})
  IN  sumOver(os, DOMAIN os) + sumOver(cs, DOMAIN cs)

TimerStep ==
  \/ createManufacturingOrder("m1", 1, <<"c1">>, MaxTimeT + 1)
  \/ startProduction(1)
  \/ pauseProduction(1)
  \/ resumeProduction(1)
  \/ card_startProduction(1)
  \/ card_pauseProduction(1)
  \/ card_resumeProduction(1)
  \/ card_startComponentProduction(1, "c1")
  \/ card_pauseComponentProduction(1, "c1")
  \/ card_resumeComponentProduction(1, "c1")
  \/ startComponentProduction(1, "c1")
  \/ pauseComponentProduction(1, "c1")
  \/ resumeComponentProduction(1, "c1")

NextTime ==
  \/ TimerStep /\ TrackerCount(orders', cards') <= MaxTrackers
  \/ Tick(MaxTimeT)

SpecTime == Init /\ [][NextTime]_vars

\* ------------------------------- specification of order creation and the catalog
NextCreate ==
  \/ CreateStep(1..MaxQuantity)
  \/ \E id \in {"m1", "c1"}, u \in InventoryUpdatesIn : updateInventoryItem(id, u)
  \/ InventoryStep

SpecCreate == Init /\ [][NextCreate]_vars

\* ------------- specification of the update requests beside component operations
NextUpdate ==
  \/ createManufacturingOrder("m1", 1, <<"c1">>, MaxTime + 1)
  \/ startProduction(1)
  \/ card_startProduction(1)
  \/ completeComponent(1, "c1")
  \/ card_completeComponent(1, "c1")
  \/ \E u \in OrderComponentUpdatesIn : updateOrder(1, u)
  \/ \E u \in CardComponentUpdatesIn : updateCard(1, u)
  \/ \E ms \in MaterialsIn : updateComponentMaterials(1, "c1", ms)
  \/ \E ms \in CardMaterialsIn : card_updateComponentMaterials(1, "c1", ms)
  \/ startComponentProduction(1, "c1")
  \/ pauseComponentProduction(1, "c1")
  \/ resumeComponentProduction(1, "c1")
  \/ card_startComponentProduction(1, "c1")
  \/ card_pauseComponentProduction(1, "c1")
  \/ card_resumeComponentProduction(1, "c1")

SpecUpdate == Init /\ [][NextUpdate]_vars

\* ------------------------------------ specification of the deletion of an order
NextDelete ==
  \/ \E q \in 1..MaxQuantity : createManufacturingOrder("m1", q, <<"c1">>, MaxTime + 1)
  \/ \E id \in OrderIdsIn :
       \/ startProduction(id)
       \/ pauseProduction(id)
       \/ resumeProduction(id)
       \/ cancelOrder(id)
       \/ deleteOrder(id)
  \/ \E id \in CardIdsIn : card_startProduction(id) \/ cancelCard(id)
  \/ deleteCard(1)

SpecDelete == Init /\ [][NextDelete]_vars

\* ------- specification of one request sequence applied to an order and to a card
\* each request goes to order 1 first and then, at the same clock reading, to card 1
OrderTurn == res.kind = "card" \/ res.op \in {"createManufacturingOrder", "tick"}
CardTurn(op, comp) == res.kind = "order" /\ res.op = op /\ res.comp = comp

NextEquiv ==
  \/ res.op = "init" /\ \E cl \in {<<>>, <<"c1">>} :
                          createManufacturingOrder("m1", 1, cl, MaxTime + 1)
  \/ OrderTurn /\ startProduction(1)
  \/ OrderTurn /\ pauseProduction(1)
  \/ OrderTurn /\ resumeProduction(1)
  \/ OrderTurn /\ \E c \in ComponentIdsIn : completeComponent(1, c)
  \/ OrderTurn /\ completeOrder(1, TRUE)
  \/ CardTurn("startProduction", "") /\ card_startProduction(1)
  \/ CardTurn("pauseProduction", "") /\ card_pauseProduction(1)
  \/ CardTurn("resumeProduction", "") /\ card_resumeProduction(1)
  \/ \E c \in ComponentIdsIn : CardTurn("completeComponent", c) /\ card_completeComponent(1, c)
  \/ CardTurn("completeOrder", "") /\ completeCard(1, TRUE)
  \/ OrderTurn /\ Tick(MaxTimeT)

SpecEquiv == Init /\ [][NextEquiv]_vars

\* ----------------------------------- specification of the priority of a card
NextPriority ==
  \/ createManufacturingOrder("m1", 1, <<"c1">>, MaxTime + 1)
  \/ card_startProduction(1)
  \/ card_pauseProduction(1)
  \/ card_resumeProduction(1)
  \/ card_completeComponent(1, "c1")
  \/ completeCard(1, TRUE)
  \/ cancelCard(1)
  \/ \E p \in ProductionCardPriority : updateCardPriority(1, p)
  \/ Tick(MaxTime)

SpecPriority == Init /\ [][NextPriority]_vars

\* -------------------------------------- specification of the listing of cards
NextList ==
  \/ \E q \in 1..MaxQuantity : createManufacturingOrder("m1", q, <<"c1">>, MaxTime + 1)
  \/ \E id \in 1..MaxQuantity :
       \/ \E u \in ListUpdatesIn : updateCard(id, u)
       \/ card_startProduction(id)
       \/ cancelCard(id)
  \/ \E f \in FiltersIn : getAllCards(f)
  \/ Tick(MaxTime)

SpecList == Init /\ [][NextList]_vars

\* ------------- specification of every guarded operation on one order and its card
\* a behaviour works either on the order or on its card: no operation on a card
\* reads an order, and deleteOrder alone reads the cards
Untouched(docs) ==
  \A k \in DOMAIN docs :
    /\ docs[k].status = PENDING
    /\ \A i \in 1..Len(docs[k].components) :
         /\ ~docs[k].components[i].timeTracker.exists
         /\ docs[k].components[i].materialUsage = <<>>

NextGuard ==
  \/ createManufacturingOrder("m1", 1, <<"c1">>, MaxTime + 1)
  \/ /\ Untouched(cards)
     /\ \/ startProduction(1)
        \/ pauseProduction(1)
        \/ resumeProduction(1)
        \/ completeComponent(1, "c1")
        \/ completeOrder(1, TRUE)
        \/ cancelOrder(1)
        \/ deleteOrder(1)
        \/ startComponentProduction(1, "c1")
        \/ pauseComponentProduction(1, "c1")
        \/ resumeComponentProduction(1, "c1")
        \/ \E ms \in MaterialsIn : updateComponentMaterials(1, "c1", ms)
        \/ addMaterialToComponent(1, "c1", "x1", 1, 0)
  \/ /\ Untouched(orders)
     /\ \/ card_startProduction(1)
        \/ card_pauseProduction(1)
        \/ card_resumeProduction(1)
        \/ card_completeComponent(1, "c1")
        \/ completeCard(1, TRUE)
        \/ cancelCard(1)
        \/ deleteCard(1)
        \/ updateCardPriority(1, "high")
        \/ card_startComponentProduction(1, "c1")
        \/ card_pauseComponentProduction(1, "c1")
        \/ card_resumeComponentProduction(1, "c1")
        \/ \E ms \in CardMaterialsIn : card_updateComponentMaterials(1, "c1", ms)
        \/ card_addMaterialToComponent(1, "c1",
             [materialId |-> "x1", plannedQuantity |-> 1, actualQuantity |-> 0])
  \/ Tick(MaxTime)

SpecGuard == Init /\ [][NextGuard]_vars

\* ------------------------------------------- specification of the inventory items
\* SKUs in both cases, a SKU nobody uses, and quantities on both sides of zero
NextInventory ==
  LET skus == {"M1", "x1", "N1"}
      quantities == {0 - 2, 0, 2}
  IN  \/ \E sku \in skus, q \in quantities : createInventoryItem(sku, q)
      \/ \E id \in {"c1", "x1"},
            u \in [canManufacture : {"false"}, estimatedManufacturingTime : {None},
                   sku : skus \cup {""}, quantity : quantities \cup {None}] :
           updateInventoryItem(id, u)
      \/ \E id \in {"m1", "c1"} : deleteInventoryItem(id)
      \/ \E id \in {"x1", UnknownId}, q \in quantities : updateQuantity(id, q)
      \/ \E a, b \in [id : {"c1", "x1"}, quantity : quantities] :
           bulkUpdateQuantities(<<a, b>>)

SpecInventory == Init /\ [][NextInventory]_vars

\* ------------------- specification of the card operations beside their order
NextCardFrame ==
  \/ \E q \in 1..MaxQuantity : createManufacturingOrder("m1", q, <<"c1">>, MaxTime + 1)
  \/ startProduction(1)
  \/ pauseProduction(1)
  \/ \E id \in CardIdsIn :
       \/ card_startProduction(id)
       \/ card_completeComponent(id, "c1")
       \/ completeCard(id, TRUE)
       \/ cancelCard(id)
  \/ card_pauseProduction(1)
  \/ card_resumeProduction(1)
  \/ \E u \in CardUpdatesIn : updateCard(1, u)
  \/ deleteCard(1)

SpecCardFrame == Init /\ [][NextCardFrame]_vars

\* ------------------------------------------------ requests served concurrently
\* Every use case awaits its repository calls one after the other, and the server
\* serves other requests between two awaits.  A request in flight is a record of
\* the operation, the document, the call it is about to make (pc) and the stock
\* it has read; n tells two requests for the same operation on the same document
\* apart.

\* the first await of pauseProduction, resumeProduction, cancelOrder, completeOrder
\* or completeCard: the document is read and the guard of the use case is
\* evaluated on what was read
Request(kind, op, id) ==
  LET docs == IF kind = "order" THEN orders ELSE cards
      allowed ==
        CASE op = "pauseProduction"  -> docs[id].status = IN_PROGRESS
          [] op = "resumeProduction" -> docs[id].status = PAUSED
          [] op = "cancelOrder"      -> docs[id].status \notin {COMPLETED, CANCELLED}
          [] OTHER -> /\ docs[id].status \in {IN_PROGRESS, PAUSED}
                      /\ AllComponentsComplete(docs[id].components)
      outcome == IF id \notin DOMAIN docs THEN NotFound
                 ELSE IF ~allowed THEN InvalidState ELSE "pending"
      free == (1..MaxInflight) \ {r.n : r \in inflight}
      n == CHOOSE k \in free : \A j \in free : k <= j
  IN  /\ free # {}
      /\ res' = [op |-> op, kind |-> kind, id |-> id, comp |-> "", outcome |-> outcome]
      /\ inflight' = IF outcome # "pending" THEN inflight
                     ELSE inflight \cup {[n |-> n, kind |-> kind, op |-> op, id |-> id,
                                          pc |-> "write", stock |-> None]}
      /\ UNCHANGED <<inventory, orders, cards, nextOrderId, nextCardId, now, pauseLog>>

\* the second await: the repository method of the operation, a findByIdAndUpdate
\* by id alone that sets the status whatever the stored status is by now
RepositoryWrite(r) ==
  LET docs == IF r.kind = "order" THEN orders ELSE cards
      doc == docs[r.id]
      refused == r.op = "resumeProduction" /\ ~CanResumeTracker(doc.timeTracker)
      written ==
        CASE r.op = "pauseProduction"  -> repo_pauseProduction(doc, now)
          [] r.op = "resumeProduction" -> repo_resumeProduction(doc, now)
          [] r.op = "cancelOrder"      -> repo_cancelOrder(doc)
          [] r.op = "completeOrder"    -> repo_completeOrder(doc, now)
          [] OTHER                     -> cardRepo_completeCard(doc, now)
      completes == r.op \in {"completeOrder", "completeCard"}
  IN  /\ r \in inflight
      /\ r.pc = "write"
      /\ IF refused THEN UNCHANGED <<orders, cards>>
         ELSE IF r.kind = "order"
           THEN orders' = [orders EXCEPT ![r.id] = written] /\ UNCHANGED cards
           ELSE cards' = [cards EXCEPT ![r.id] = written] /\ UNCHANGED orders
      /\ inflight' = IF completes THEN (inflight \ {r}) \cup {[r EXCEPT !.pc = "find"]}
                     ELSE inflight \ {r}
      /\ res' = [op |-> r.op, kind |-> r.kind, id |-> r.id, comp |-> "",
                 outcome |-> IF refused THEN RepoError
                             ELSE IF completes THEN "pending" ELSE OK]
      /\ UNCHANGED <<inventory, nextOrderId, nextCardId, now, pauseLog>>

\* completeOrder / completeCard, third await: inventoryRepository.findById of the
\* model; without the item the request is answered at once
InventoryFind(r) ==
  LET docs == IF r.kind = "order" THEN orders ELSE cards
      currentModel == InvFindById(inventory, docs[r.id].modelId)
  IN  /\ r \in inflight
      /\ r.pc = "find"
      /\ inflight' = IF currentModel.exists
                       THEN (inflight \ {r}) \cup
                            {[r EXCEPT !.pc = "update", !.stock = currentModel.quantity]}
                       ELSE inflight \ {r}
      /\ res' = [op |-> r.op, kind |-> r.kind, id |-> r.id, comp |-> "",
                 outcome |-> IF currentModel.exists THEN "pending" ELSE OK]
      /\ UNCHANGED <<inventory, orders, cards, nextOrderId, nextCardId, now, pauseLog>>

\* completeOrder / completeCard, fourth await: updateQuantity with the quantity
\* that was read plus the units produced (order.quantity, or 1 for a card)
InventoryUpdate(r) ==
  LET docs == IF r.kind = "order" THEN orders ELSE cards
      units == IF r.kind = "order" THEN docs[r.id].quantity ELSE 1
  IN  /\ r \in inflight
      /\ r.pc = "update"
      /\ r.stock + units <= MaxStock
      /\ inventory' = InvUpdateQuantity(inventory, docs[r.id].modelId, r.stock + units)
      /\ inflight' = inflight \ {r}
      /\ res' = [op |-> r.op, kind |-> r.kind, id |-> r.id, comp |-> "", outcome |-> OK]
      /\ UNCHANGED <<orders, cards, nextOrderId, nextCardId, now, pauseLog>>

\* one order and its cards, which are started and have their component completed
\* by requests served in one piece; at most one completeCard request per card is
\* in flight
NextRace ==
  \/ \E q \in 1..MaxQuantity : createManufacturingOrder("m1", q, <<"c1">>, MaxTime + 1)
  \/ startProduction(1)
  \/ completeComponent(1, "c1")
  \/ \E id \in CardIdsIn : card_startProduction(id) \/ card_completeComponent(id, "c1")
  \/ \E op \in {"pauseProduction", "resumeProduction", "cancelOrder", "completeOrder"} :
       Request("order", op, 1)
  \/ \E id \in CardIdsIn :
       /\ \A r \in inflight : ~(r.kind = "card" /\ r.id = id)
       /\ Request("card", "completeCard", id)
  \/ \E r \in inflight : RepositoryWrite(r)
  \/ \E r \in inflight : InventoryFind(r)
  \/ \E r \in inflight : InventoryUpdate(r)

SpecRace == Init /\ [][NextRace]_vars

\* ------------------------- specification of order creation with failing saves
NextPersist ==
  \/ \E q \in 1..MaxQuantity : createManufacturingOrder("m1", q, <<"c1">>, MaxTime + 1)
  \/ \E q \in 1..MaxQuantity, cardsSaved \in 0..(MaxQuantity - 1) :
       createManufacturingOrderInterrupted("m1", q, <<"c1">>, MaxTime + 1, TRUE, cardsSaved)
  \/ createManufacturingOrderInterrupted("m1", 1, <<"c1">>, MaxTime + 1, FALSE, 0)
  \/ startProduction(1)
  \/ cancelOrder(1)
  \/ \E id \in CardIdsIn : card_startProduction(id) \/ cancelCard(id)
  \/ Tick(MaxTime)

SpecPersist == Init /\ [][NextPersist]_vars

\* ==================================================================== claims
\* the request that produced the current step
IsOrderCall(ops) == res'.kind = "order" /\ res'.op \in ops
IsCardCall(ops) == res'.kind = "card" /\ res'.op \in ops

LifecycleOps ==
  {"startProduction", "pauseProduction", "resumeProduction", "completeOrder", "cancelOrder"}
ComponentTimerOps ==
  {"startComponentProduction", "pauseComponentProduction", "resumeComponentProduction"}
MaterialOps == {"updateComponentMaterials", "addMaterialToComponent"}
ComponentOps == {"completeComponent"} \cup ComponentTimerOps \cup MaterialOps

\* C1: on an order whose status is completed or cancelled, every later call of
\* startProduction, pauseProduction, resumeProduction, completeOrder, cancelOrder,
\* completeComponent, a component timer operation or a material-usage operation
\* fails and leaves the order's status and component list unchanged.
C1_TerminalOrderRejectsEveryOperation ==
  [][\A id \in DOMAIN orders :
       (/\ orders[id].status \in {COMPLETED, CANCELLED}
        /\ IsOrderCall(LifecycleOps \cup ComponentOps)
        /\ res'.id = id)
       => /\ res'.outcome # OK
          /\ id \in DOMAIN orders'
          /\ orders'[id].status = orders[id].status
          /\ orders'[id].components = orders[id].components]_vars

\* C8: every change of an order's status follows one of the edges
\* pending -> in_progress, in_progress -> paused, paused -> in_progress,
\* in_progress|paused -> completed, pending|in_progress|paused -> cancelled;
\* in particular a pending order is never completed directly.
StatusEdges ==
  {<<PENDING, IN_PROGRESS>>, <<IN_PROGRESS, PAUSED>>, <<PAUSED, IN_PROGRESS>>,
   <<IN_PROGRESS, COMPLETED>>, <<PAUSED, COMPLETED>>,
   <<PENDING, CANCELLED>>, <<IN_PROGRESS, CANCELLED>>, <<PAUSED, CANCELLED>>}

C8_OrderStatusFollowsEdges ==
  [][\A id \in DOMAIN orders \cap DOMAIN orders' :
       orders'[id].status # orders[id].status
         => <<orders[id].status, orders'[id].status>> \in StatusEdges]_vars

\* C9: cancelOrder on a pending order sets its status to cancelled; cancelOrder on
\* a cancelled order fails with an invalid-state error and leaves the order
\* unchanged; cancelOrder on a completed order fails and leaves it completed.
C9_CancelOrder ==
  [][\A id \in DOMAIN orders :
       (IsOrderCall({"cancelOrder"}) /\ res'.id = id)
       => /\ orders[id].status = PENDING
               => res'.outcome = OK /\ orders'[id].status = CANCELLED
          /\ orders[id].status = CANCELLED
               => res'.outcome = InvalidState /\ orders' = orders
          /\ orders[id].status = COMPLETED
               => res'.outcome # OK /\ orders' = orders]_vars

\* a second cancelOrder has just been rejected on a cancelled order
C9_Witness ==
  /\ res.kind = "order" /\ res.op = "cancelOrder" /\ res.outcome = InvalidState
  /\ res.id \in DOMAIN orders
  /\ orders[res.id].status = CANCELLED

\* C10: completeComponent succeeds only while the order is in_progress or paused
\* and the component is not yet completed, and then sets isCompleted = true,
\* quantityCompleted = quantityRequired and completedAt = now; a call on a component
\* that is already completed fails with an invalid-state error and leaves the order,
\* and with it the completedAt recorded by the first call, unchanged.
C10_CompleteComponent ==
  [][\A id \in DOMAIN orders :
       (IsOrderCall({"completeComponent"}) /\ res'.id = id)
       => LET i == FindComponent(orders[id].components, res'.comp) IN
          /\ res'.outcome = OK
               => /\ orders[id].status \in {IN_PROGRESS, PAUSED}
                  /\ i # 0
                  /\ ~orders[id].components[i].isCompleted
                  /\ orders'[id].components[i].isCompleted
                  /\ orders'[id].components[i].quantityCompleted
                       = orders[id].components[i].quantityRequired
                  /\ orders'[id].components[i].completedAt = now
          /\ (i # 0 /\ orders[id].components[i].isCompleted)
               => /\ res'.outcome = InvalidState
                  /\ orders' = orders]_vars

\* a second completeComponent has just been rejected, later than the first call,
\* on an order that still accepts component completions
C10_Witness ==
  /\ res.kind = "order" /\ res.op = "completeComponent" /\ res.outcome = InvalidState
  /\ res.id \in DOMAIN orders
  /\ orders[res.id].status \in {IN_PROGRESS, PAUSED}
  /\ LET i == FindComponent(orders[res.id].components, res.comp) IN
       /\ i # 0
       /\ orders[res.id].components[i].isCompleted
       /\ orders[res.id].components[i].completedAt < now

\* C2: a successful createManufacturingOrder with quantity N creates exactly one
\* order and exactly N production cards for it, whose cardNumber values are exactly
\* 1..N (each once), each with totalCards = N, quantity = 1, status = pending and a
\* component list equal by value to the order's component list, in which every
\* component has isCompleted = false.
C2_CreateYieldsCards ==
  [][(IsOrderCall({"createManufacturingOrder"}) /\ res'.outcome = OK)
     => LET id == res'.id
            created == DOMAIN cards' \ DOMAIN cards
        IN  /\ DOMAIN orders' = DOMAIN orders \cup {id}
            /\ id \notin DOMAIN orders
            /\ \A o \in DOMAIN orders : orders'[o] = orders[o]
            /\ \A c \in DOMAIN cards : c \in DOMAIN cards' /\ cards'[c] = cards[c]
            /\ Cardinality(created) = orders'[id].quantity
            /\ {c \in DOMAIN cards' : cards'[c].orderId = id} = created
            /\ {cards'[c].cardNumber : c \in created} = 1..orders'[id].quantity
            /\ \A c \in created :
                 /\ cards'[c].totalCards = orders'[id].quantity
                 /\ cards'[c].quantity = 1
                 /\ cards'[c].status = PENDING
                 /\ cards'[c].components = orders'[id].components
                 /\ \A i \in 1..Len(cards'[c].components) :
                      ~cards'[c].components[i].isCompleted]_vars

\* an order of several units with a non-empty component list has just been created
C2_Witness ==
  /\ res.kind = "order" /\ res.op = "createManufacturingOrder" /\ res.outcome = OK
  /\ res.id \in DOMAIN orders
  /\ orders[res.id].quantity >= 2
  /\ Len(orders[res.id].components) >= 1
  /\ Cardinality({c \in DOMAIN cards : cards[c].orderId = res.id}) >= 2

\* C3: a component-level operation on one production card leaves the component list
\* of the parent order and of every sibling card unchanged, and a component-level
\* operation on an order leaves the component lists of all its cards unchanged.
C3_ComponentListsAreIndependent ==
  [][/\ IsCardCall(ComponentOps)
          => /\ orders' = orders
             /\ \A c \in DOMAIN cards \ {res'.id} :
                  c \in DOMAIN cards' /\ cards'[c].components = cards[c].components
     /\ IsOrderCall(ComponentOps)
          => \A c \in DOMAIN cards :
               c \in DOMAIN cards' /\ cards'[c].components = cards[c].components]_vars

\* a component of one card has just been completed while the same component of the
\* parent order and of a sibling card is still open
C3_Witness ==
  /\ res.kind = "card" /\ res.op = "completeComponent" /\ res.outcome = OK
  /\ res.id \in DOMAIN cards
  /\ cards[res.id].components[1].isCompleted
  /\ cards[res.id].orderId \in DOMAIN orders
  /\ ~orders[cards[res.id].orderId].components[1].isCompleted
  /\ \E c \in DOMAIN cards \ {res.id} :
       /\ cards[c].orderId = cards[res.id].orderId
       /\ ~cards[c].components[1].isCompleted

\* every embedded component of a component list has isCompleted = true
C4_EveryComponentCompleted(components) ==
  \A i \in 1..Len(components) : components[i].isCompleted

\* C4 as stated: completeOrder (completeCard) succeeds if and only if every embedded
\* component has isCompleted = true; with an incomplete component the call fails with
\* an invalid-state error and the status is unchanged.
C4_CompleteIffAllComponents ==
  [][/\ \A id \in DOMAIN orders :
          (IsOrderCall({"completeOrder"}) /\ res'.id = id)
          => /\ res'.outcome = OK <=> C4_EveryComponentCompleted(orders[id].components)
             /\ ~C4_EveryComponentCompleted(orders[id].components)
                  => res'.outcome = InvalidState /\ orders'[id].status = orders[id].status
     /\ \A id \in DOMAIN cards :
          (IsCardCall({"completeCard"}) /\ res'.id = id)
          => /\ res'.outcome = OK <=> C4_EveryComponentCompleted(cards[id].components)
             /\ ~C4_EveryComponentCompleted(cards[id].components)
                  => res'.outcome = InvalidState /\ cards'[id].status = cards[id].status]_vars

\* C4 amended: on an order (card) whose status is in_progress or paused,
\* completeOrder (completeCard) succeeds if and only if every embedded component has
\* isCompleted = true; in every other status it fails; with an incomplete component
\* the call fails with an invalid-state error and the status is unchanged.
C4_CompleteIffAllComponentsWhileActive ==
  [][/\ \A id \in DOMAIN orders :
          (IsOrderCall({"completeOrder"}) /\ res'.id = id)
          => /\ res'.outcome = OK
                  <=> /\ orders[id].status \in {IN_PROGRESS, PAUSED}
                      /\ C4_EveryComponentCompleted(orders[id].components)
             /\ res'.outcome = OK => orders'[id].status = COMPLETED
             /\ ~C4_EveryComponentCompleted(orders[id].components)
                  => res'.outcome = InvalidState /\ orders'[id].status = orders[id].status
     /\ \A id \in DOMAIN cards :
          (IsCardCall({"completeCard"}) /\ res'.id = id)
          => /\ res'.outcome = OK
                  <=> /\ cards[id].status \in {IN_PROGRESS, PAUSED}
                      /\ C4_EveryComponentCompleted(cards[id].components)
             /\ res'.outcome = OK => cards'[id].status = COMPLETED
             /\ ~C4_EveryComponentCompleted(cards[id].components)
                  => res'.outcome = InvalidState /\ cards'[id].status = cards[id].status]_vars

\* an order with two components, both completed, has just been completed
C4_Witness ==
  /\ res.kind = "order" /\ res.op = "completeOrder" /\ res.outcome = OK
  /\ res.id \in DOMAIN orders
  /\ orders[res.id].status = COMPLETED
  /\ Len(orders[res.id].components) = 2
  /\ C4_EveryComponentCompleted(orders[res.id].components)

\* C5 as stated: a successful completeOrder on an order of quantity q increases the
\* stock of the order's model by exactly q, a successful completeCard increases the
\* stock of the card's model by exactly 1, and no other item's quantity changes.
StockDelta(modelId) ==
  InvFindById(inventory', modelId).quantity - InvFindById(inventory, modelId).quantity

OtherStockUnchanged(modelId) ==
  \A i \in ItemIds \ {modelId} : inventory'[i] = inventory[i]

C5_CompletionAddsStock ==
  [][/\ \A id \in DOMAIN orders :
          (IsOrderCall({"completeOrder"}) /\ res'.id = id /\ res'.outcome = OK)
          => /\ StockDelta(orders[id].modelId) = orders[id].quantity
             /\ OtherStockUnchanged(orders[id].modelId)
     /\ \A id \in DOMAIN cards :
          (IsCardCall({"completeCard"}) /\ res'.id = id /\ res'.outcome = OK)
          => /\ StockDelta(cards[id].modelId) = 1
             /\ OtherStockUnchanged(cards[id].modelId)]_vars

\* C5 amended: a successful completeOrder on an order of quantity q whose model is
\* still in the catalog increases the stock of that model by exactly q when the
\* inventory lookup and update do not fail, and a successful completeCard likewise
\* by exactly 1 whatever the parent order's quantity is; when the model is no longer
\* in the catalog or the inventory access fails the completion still succeeds and
\* the stock is unchanged; in every case no other item's quantity changes.
C5_CompletionAddsStockWhenInventoryWorks ==
  [][/\ \A id \in DOMAIN orders :
          (IsOrderCall({"completeOrder"}) /\ res'.id = id /\ res'.outcome = OK)
          => /\ OtherStockUnchanged(orders[id].modelId)
             /\ StockDelta(orders[id].modelId) \in {0, orders[id].quantity}
             /\ (completeOrder(id, TRUE) /\ InvFindById(inventory, orders[id].modelId).exists)
                  => StockDelta(orders[id].modelId) = orders[id].quantity
             /\ ~InvFindById(inventory, orders[id].modelId).exists
                  => inventory' = inventory
     /\ \A id \in DOMAIN cards :
          (IsCardCall({"completeCard"}) /\ res'.id = id /\ res'.outcome = OK)
          => /\ OtherStockUnchanged(cards[id].modelId)
             /\ StockDelta(cards[id].modelId) \in {0, 1}
             /\ (completeCard(id, TRUE) /\ InvFindById(inventory, cards[id].modelId).exists)
                  => StockDelta(cards[id].modelId) = 1
             /\ ~InvFindById(inventory, cards[id].modelId).exists
                  => inventory' = inventory]_vars

\* an order of two units has just been completed and its two units are in stock
C5_Witness ==
  /\ res.kind = "order" /\ res.op = "completeOrder" /\ res.outcome = OK
  /\ res.id \in DOMAIN orders
  /\ orders[res.id].quantity = 2
  /\ InvFindById(inventory, orders[res.id].modelId).exists
  /\ InvFindById(inventory, orders[res.id].modelId).quantity >= 2

\* every time tracker stored at order level, card level and component level
TrackersOf(docs) ==
  {docs[k].timeTracker : k \in DOMAIN docs}
    \cup UNION {{docs[k].components[i].timeTracker : i \in 1..Len(docs[k].components)} :
                k \in DOMAIN docs}

AllTrackers(os, cs) == {tr \in TrackersOf(os) \cup TrackersOf(cs) : tr.exists}

\* C6: for every time tracker (order, card or component) the elapsed production time
\* returned by getCurrentProductionTime / getComponentProductionTime is never
\* negative, does not decrease as the query time advances while the tracker is not
\* paused, and stays constant as the query time advances while the tracker is paused.
C6_ElapsedNonNegative ==
  \A tr \in AllTrackers(orders, cards) : ~ElapsedThrows(tr) => Elapsed(tr, now) >= 0

TrackedPairs(os, cs, log) ==
  {<<os[k].timeTracker, log.order[k]>> : k \in DOMAIN os}
    \cup {<<cs[k].timeTracker, log.card[k]>> : k \in DOMAIN cs}

\* totalPauseMinutes is the sum of the closed pause intervals, each rounded to the
\* nearest minute
C7_TotalIsSumOfRounded ==
  \A p \in TrackedPairs(orders, cards, pauseLog) :
    (p[1].exists /\ p[1].startTime # None) => p[1].totalPauseMinutes = p[2].sumRounded

\* twice the wall-clock time since startTime, and twice the reported elapsed time
\* plus all pause intervals (the open one included), in clock units
C7_TwiceWall(p) == 2 * (now - p[1].startTime)

C7_TwiceAccounted(p) ==
  LET open == IF p[1].isPaused THEN now - p[1].pauseStartTime ELSE 0
  IN  2 * (UnitsPerMinute * Elapsed(p[1], now) + p[2].sumUnits + open)

\* the number of pause intervals of a tracker, the open one included
C7_Intervals(p) == p[2].count + (IF p[1].isPaused THEN 1 ELSE 0)

\* a resume after a pause of exactly m whole minutes adds exactly m to
\* totalPauseMinutes, and the elapsed time queried immediately after it is the
\* elapsed time that excluded the pause
C7_WholeMinutePause(old, new) ==
  (/\ old.exists /\ old.isPaused /\ old.startTime # None
   /\ now > old.pauseStartTime
   /\ (now - old.pauseStartTime) % UnitsPerMinute = 0)
  => /\ new.totalPauseMinutes
          = old.totalPauseMinutes + (now - old.pauseStartTime) \div UnitsPerMinute
     /\ Elapsed(new, now') = Elapsed(old, now)
     /\ Elapsed(new, now')
          = Max(0, RoundMinutes((now - old.startTime)
                                  - (now - old.pauseStartTime)
                                  - old.totalPauseMinutes * UnitsPerMinute))

C7_ResumeExcludesPause ==
  [][(res'.op = "resumeProduction" /\ res'.outcome = OK)
       => /\ res'.kind = "order"
               => C7_WholeMinutePause(orders[res'.id].timeTracker,
                                      orders'[res'.id].timeTracker)
          /\ res'.kind = "card"
               => C7_WholeMinutePause(cards[res'.id].timeTracker,
                                      cards'[res'.id].timeTracker)]_vars

\* C7 as stated: over any sequence start, (pause, resume)*, (a) totalPauseMinutes
\* after the k-th resume equals the sum of the k pause intervals each rounded to the
\* nearest minute; (b) at any query time the wall-clock time since startTime is at
\* least the reported elapsed time plus the sum of all pause intervals, up to one
\* minute per pause interval; (c) after a pause of exactly m whole minutes the
\* elapsed time queried immediately after resume excludes those m minutes.
C7_PauseAccounting ==
  /\ [](/\ C7_TotalIsSumOfRounded
        /\ \A p \in TrackedPairs(orders, cards, pauseLog) :
             (p[1].exists /\ p[1].startTime # None)
               => C7_TwiceAccounted(p)
                    <= C7_TwiceWall(p) + 2 * C7_Intervals(p) * UnitsPerMinute)
  /\ C7_ResumeExcludesPause

\* C7 amended: (a) and (c) as stated; (b) at any query time the wall-clock time since
\* startTime is at least the reported elapsed time plus the sum of all pause
\* intervals, up to half a minute per closed pause interval and half a minute more
\* for the reported elapsed time, which is itself rounded to the nearest minute (so
\* with no pause at all the reported time can exceed the wall-clock time by half a
\* minute).
C7_PauseAccountingWithReportRounding ==
  /\ [](/\ C7_TotalIsSumOfRounded
        /\ \A p \in TrackedPairs(orders, cards, pauseLog) :
             (p[1].exists /\ p[1].startTime # None)
               => C7_TwiceAccounted(p)
                    <= C7_TwiceWall(p) + (p[2].count + 1) * UnitsPerMinute)
  /\ C7_ResumeExcludesPause

\* a tracker has just been resumed for the second time, and its two pauses were not
\* both whole minutes
C7_Witness ==
  /\ res.op = "resumeProduction" /\ res.outcome = OK
  /\ \E p \in TrackedPairs(orders, cards, pauseLog) :
       /\ p[1].exists /\ ~p[1].isPaused
       /\ p[2].count = 2
       /\ p[2].sumRounded >= 1
       /\ p[2].sumRounded * UnitsPerMinute # p[2].sumUnits

\* the cards created by the current step
CreatedCards == DOMAIN cards' \ DOMAIN cards

\* C11 as stated: the order created by createManufacturingOrder for a model with
\* estimatedManufacturingTime = h and quantity q has estimatedHours = h * q and each of
\* its cards has estimatedHours = h, also when h is 0.
C11_EstimatedHours ==
  [][(IsOrderCall({"createManufacturingOrder"}) /\ res'.outcome = OK)
     => LET h == InvFindById(inventory, res'.comp).estimatedManufacturingTime
        IN  h # None
              => /\ orders'[res'.id].estimatedHours = h * orders'[res'.id].quantity
                 /\ \A c \in CreatedCards : cards'[c].estimatedHours = h]_vars

\* the request of the current step was createManufacturingOrder for model m and it
\* created nothing
C12_Rejected(m, outcome) ==
  /\ res'.outcome = outcome
  /\ orders' = orders
  /\ cards' = cards

\* every component of the created order resolves in the catalog
C12_ComponentsResolve ==
  \A i \in 1..Len(orders'[res'.id].components) :
    InvFindById(inventory, orders'[res'.id].components[i].componentId).exists

\* C12 as stated: createManufacturingOrder fails with a not-found error when the model
\* id does not resolve and with an invalid-state error when the item is not of type
\* model or its canManufacture flag is not true, creating nothing; component ids that
\* do not resolve are skipped without failing the creation.
C12_CreateValidation ==
  [][IsOrderCall({"createManufacturingOrder"})
     => LET m == InvFindById(inventory, res'.comp) IN
        /\ ~m.exists => C12_Rejected(res'.comp, NotFound)
        /\ (m.exists /\ (m.type # "model" \/ m.canManufacture # "true"))
             => C12_Rejected(res'.comp, InvalidState)
        /\ res'.outcome = OK => C12_ComponentsResolve]_vars

\* C12 amended: createManufacturingOrder fails with a not-found error when the model id
\* does not resolve and with an invalid-state error when the item is not of type model
\* or its canManufacture flag is false, creating nothing; an item of type model whose
\* canManufacture flag is true or has no boolean value is accepted; component ids that
\* do not resolve are skipped without failing the creation.
C12_CreateValidationFlagFalse ==
  [][IsOrderCall({"createManufacturingOrder"})
     => LET m == InvFindById(inventory, res'.comp) IN
        /\ ~m.exists => C12_Rejected(res'.comp, NotFound)
        /\ (m.exists /\ (m.type # "model" \/ m.canManufacture = "false"))
             => C12_Rejected(res'.comp, InvalidState)
        /\ (m.exists /\ m.type = "model" /\ m.canManufacture # "false")
             => res'.outcome = OK /\ res'.id \in DOMAIN orders' \ DOMAIN orders
        /\ res'.outcome = OK => C12_ComponentsResolve]_vars

\* an order has just been created from a request that named a component id that does
\* not resolve: only the resolved component is in its list
C12_Witness ==
  /\ res.kind = "order" /\ res.op = "createManufacturingOrder" /\ res.outcome = OK
  /\ res.id \in DOMAIN orders
  /\ Len(orders[res.id].components) = 1
  /\ orders[res.id].components[1].componentId = "c1"

\* every component of the list old that is completed is still in the list new, completed
C13_CompletedStay(old, new) ==
  \A i \in 1..Len(old) :
    old[i].isCompleted
      => \E j \in 1..Len(new) :
           new[j].componentId = old[i].componentId /\ new[j].isCompleted

\* C13: a component of an order or of a card that has isCompleted = true stays
\* isCompleted = true: no operation of the order or card use cases (updateOrder,
\* updateCard, material-usage replace and component timer operations included) resets
\* it to false or removes the component.
C13_CompletedIsSticky ==
  [][/\ \A id \in DOMAIN orders \cap DOMAIN orders' :
          C13_CompletedStay(orders[id].components, orders'[id].components)
     /\ \A id \in DOMAIN cards \cap DOMAIN cards' :
          C13_CompletedStay(cards[id].components, cards'[id].components)]_vars

C15_TerminalOrderRejectsUpdate ==
  [][\A id \in DOMAIN orders :
       (/\ IsOrderCall({"updateOrder"}) /\ res'.id = id
        /\ orders[id].status \in {COMPLETED, CANCELLED})
       => /\ res'.outcome # OK
          /\ id \in DOMAIN orders'
          /\ orders'[id].notes = orders[id].notes
          /\ orders'[id].dueDate = orders[id].dueDate
          /\ orders'[id].quantity = orders[id].quantity
          /\ orders'[id].clientName = orders[id].clientName]_vars

\* an updateOrder has just been rejected on a cancelled order
C15_Witness ==
  /\ res.kind = "order" /\ res.op = "updateOrder" /\ res.outcome = InvalidState
  /\ res.id \in DOMAIN orders
  /\ orders[res.id].status = CANCELLED
  /\ orders[res.id].notes = "" /\ orders[res.id].clientName = "client"

\* no card of the store snapshot refers to an order that the snapshot no longer holds
C16_NoCardWithoutOrder(snapshot, id) ==
  \A k \in DOMAIN snapshot.cards :
    snapshot.cards[k].orderId = id => id \in DOMAIN snapshot.orders

\* C16: deleteOrder on an in_progress order fails and deletes neither the order nor
\* any of its cards; a successful deleteOrder deletes every production card of the
\* order before the order itself, so that afterwards no card referencing the order
\* remains, and after no repository delete of the cascade does a card exist whose
\* order is already deleted.
C16_DeleteOrderCascade ==
  [][\A id \in DOMAIN orders :
       (IsOrderCall({"deleteOrder"}) /\ res'.id = id)
       => /\ orders[id].status = IN_PROGRESS
               => res'.outcome # OK /\ orders' = orders /\ cards' = cards
          /\ res'.outcome = OK
               => /\ id \notin DOMAIN orders'
                  /\ \A k \in DOMAIN cards' : cards'[k].orderId # id
                  /\ \A k \in DOMAIN cards : cards[k].orderId # id
                       => k \in DOMAIN cards' /\ cards'[k] = cards[k]
                  /\ LET steps == deleteOrderSteps(orders, cards, id) IN
                       /\ steps[Len(steps)].orders = orders'
                       /\ steps[Len(steps)].cards = cards'
                       /\ \A i \in 1..Len(steps) : C16_NoCardWithoutOrder(steps[i], id)]_vars

\* an order of two cards has just been deleted together with the card that was left
C16_Witness ==
  /\ res.kind = "order" /\ res.op = "deleteOrder" /\ res.outcome = OK
  /\ nextCardId = 3
  /\ DOMAIN orders = {}
  /\ DOMAIN cards = {}

\* an order and a card agree on status, time-tracker fields and component flags
C17_SameState(o, c) ==
  /\ o.status = c.status
  /\ o.timeTracker = c.timeTracker
  /\ o.startedAt = c.startedAt
  /\ o.completedAt = c.completedAt
  /\ Len(o.components) = Len(c.components)
  /\ \A i \in 1..Len(o.components) :
       /\ o.components[i].componentId = c.components[i].componentId
       /\ o.components[i].isCompleted = c.components[i].isCompleted
       /\ o.components[i].quantityCompleted = c.components[i].quantityCompleted
       /\ o.components[i].completedAt = c.components[i].completedAt

\* C17: for the same sequence of start, pause, resume, completeComponent and complete
\* requests applied to an order and to a card that begin in the same status with the
\* same component flags, each request succeeds on the card exactly when it succeeds
\* on the order, and the resulting status, time-tracker fields and component flags are
\* the same.
C17_CardFollowsOrder ==
  [][res'.kind = "card"
       => /\ res.kind = "order"
          /\ (res'.outcome = OK) <=> (res.outcome = OK)
          /\ C17_SameState(orders'[1], cards'[1])]_vars

\* the card has just been completed after the order, both after a pause and a resume
C17_Witness ==
  /\ res.kind = "card" /\ res.op = "completeCard" /\ res.outcome = OK
  /\ orders[1].status = COMPLETED /\ cards[1].status = COMPLETED
  /\ orders[1].timeTracker.totalPauseMinutes >= 1
  /\ cards[1].timeTracker.totalPauseMinutes >= 1

\* C18: cancelCard applies the same guard as cancelOrder: it fails on a completed
\* card, and it fails with an invalid-state error on a card that is already
\* cancelled, leaving the card unchanged in both cases.
C18_CancelCard ==
  [][\A id \in DOMAIN cards :
       (IsCardCall({"cancelCard"}) /\ res'.id = id)
       => /\ cards[id].status = COMPLETED
               => res'.outcome # OK /\ cards' = cards
          /\ cards[id].status = CANCELLED
               => res'.outcome = InvalidState /\ cards' = cards]_vars

\* C19: updateCardPriority fails on every card whose status is completed or cancelled
\* and leaves its priority unchanged; on any other card it sets the priority to the
\* requested value and changes no other field of the card.
C19_UpdateCardPriority ==
  [][\A id \in DOMAIN cards :
       (IsCardCall({"updateCardPriority"}) /\ res'.id = id)
       => /\ cards[id].status \in {COMPLETED, CANCELLED}
               => res'.outcome # OK /\ cards'[id].priority = cards[id].priority
          /\ cards[id].status \notin {COMPLETED, CANCELLED}
               => /\ res'.outcome = OK
                  /\ cards'[id].priority = res'.comp
                  /\ \A k \in DOMAIN cards \ {id} : cards'[k] = cards[k]
                  /\ cards'[id].status = cards[id].status
                  /\ cards'[id].components = cards[id].components
                  /\ cards'[id].timeTracker = cards[id].timeTracker
                  /\ cards'[id].dueDate = cards[id].dueDate
                  /\ cards'[id].orderId = cards[id].orderId
                  /\ cards'[id].cardNumber = cards[id].cardNumber
                  /\ cards'[id].totalCards = cards[id].totalCards
                  /\ cards'[id].quantity = cards[id].quantity
                  /\ cards'[id].startedAt = cards[id].startedAt
                  /\ cards'[id].completedAt = cards[id].completedAt
                  /\ cards'[id].estimatedHours = cards[id].estimatedHours]_vars

\* the priority of a paused card whose component is completed has just been raised
C19_Witness ==
  /\ res.kind = "card" /\ res.op = "updateCardPriority" /\ res.outcome = OK
  /\ res.id \in DOMAIN cards
  /\ cards[res.id].priority = "urgent"
  /\ cards[res.id].status = PAUSED
  /\ cards[res.id].timeTracker.isPaused
  /\ cards[res.id].components[1].isCompleted

\* C20: the list returned by the card listing operation is a permutation of the
\* cards matching the filters, sorted by priority rank urgent < high < normal < low
\* (a missing or unknown priority ranks as normal) and, among cards of equal rank,
\* by ascending dueDate.
C20_Rank(p) == IF p = "urgent" THEN 1 ELSE IF p = "high" THEN 2 ELSE IF p = "low" THEN 4 ELSE 3

\* every filter of the request holds of the card
C20_Matches(c, f, t) ==
  /\ f.status # "" => c.status = f.status
  /\ f.priority # "" => c.priority = f.priority
  /\ f.orderId # None => c.orderId = f.orderId
  /\ f.modelId # "" => c.modelId = f.modelId
  /\ f.overdue => c.dueDate < t /\ c.status \notin {COMPLETED, CANCELLED}

C20_Sorted(data) ==
  \A i, j \in 1..Len(data) :
    i < j => \/ C20_Rank(cards[data[i]].priority) < C20_Rank(cards[data[j]].priority)
             \/ /\ C20_Rank(cards[data[i]].priority) = C20_Rank(cards[data[j]].priority)
                /\ cards[data[i]].dueDate <= cards[data[j]].dueDate

C20_PermutationOf(data, ids) ==
  /\ \A i, j \in 1..Len(data) : i # j => data[i] # data[j]
  /\ {data[i] : i \in 1..Len(data)} = ids

C20_ListingSortedPermutation ==
  res.op = "getAllCards"
  => /\ C20_PermutationOf(res.data,
                          {id \in DOMAIN cards : C20_Matches(cards[id], res.filters, now)})
     /\ C20_Sorted(res.data)

\* C21: when the inventory lookup or quantity update performed during completeOrder
\* (or completeCard) fails, the completion still returns success, the order (card) is
\* in status completed with completedAt set, and the stock quantity of the model (and
\* of every other item) is left at its previous value.
C21_FailedSyncIsSwallowed ==
  [][/\ \A id \in DOMAIN orders :
          (/\ IsOrderCall({"completeOrder"}) /\ res'.id = id
           /\ orders[id].status \in {IN_PROGRESS, PAUSED}
           /\ C4_EveryComponentCompleted(orders[id].components)
           /\ completeOrder(id, FALSE))
          => /\ res'.outcome = OK
             /\ orders'[id].status = COMPLETED
             /\ orders'[id].completedAt # None
             /\ inventory' = inventory
     /\ \A id \in DOMAIN cards :
          (/\ IsCardCall({"completeCard"}) /\ res'.id = id
           /\ cards[id].status \in {IN_PROGRESS, PAUSED}
           /\ C4_EveryComponentCompleted(cards[id].components)
           /\ completeCard(id, FALSE))
          => /\ res'.outcome = OK
             /\ cards'[id].status = COMPLETED
             /\ cards'[id].completedAt # None
             /\ inventory' = inventory]_vars

\* an order of two units has just been completed, its model is still in the catalog
\* and, no card being completed, the stock of the model is still what it was
C21_Witness ==
  /\ res.kind = "order" /\ res.op = "completeOrder" /\ res.outcome = OK
  /\ res.id \in DOMAIN orders
  /\ orders[res.id].status = COMPLETED /\ orders[res.id].completedAt # None
  /\ orders[res.id].quantity = 2
  /\ InvFindById(inventory, orders[res.id].modelId).exists
  /\ InvFindById(inventory, orders[res.id].modelId).quantity = 0
  /\ \A c \in DOMAIN cards : cards[c].status # COMPLETED

\* C22: whenever a lifecycle operation on an order or a card (start, pause, resume,
\* completeComponent, complete, cancel, delete, set-priority, component timer and
\* material-usage operations) is rejected, the persisted orders, cards and inventory
\* items are exactly what they were before the call.
C22_GuardedOps ==
  LifecycleOps \cup ComponentOps \cup {"completeCard", "cancelCard", "deleteOrder",
                                        "deleteCard", "updateCardPriority"}

C22_RejectionLeavesStores ==
  [][(res'.kind \in {"order", "card"} /\ res'.op \in C22_GuardedOps /\ res'.outcome # OK)
       => orders' = orders /\ cards' = cards /\ inventory' = inventory]_vars

\* completeOrder has just been rejected on a paused order whose component, with a
\* paused timer and a material, is not completed
C22_Witness ==
  /\ res.kind = "order" /\ res.op = "completeOrder" /\ res.outcome = InvalidState
  /\ res.id \in DOMAIN orders
  /\ orders[res.id].status = PAUSED
  /\ ~orders[res.id].components[1].isCompleted
  /\ orders[res.id].components[1].timeTracker.isPaused
  /\ Len(orders[res.id].components[1].materialUsage) = 1

\* C23: an order (and a card) is reported overdue exactly when its dueDate is earlier
\* than the current time and its status is neither completed nor cancelled; this
\* holds for the overdue queries, the overdue filter of the listing and the isOverdue
\* predicate of the entities, and 'overdue' is never stored as a status.
C23_Overdue(doc, t) == doc.dueDate < t /\ doc.status # COMPLETED /\ doc.status # CANCELLED

C23_OverdueIsComputed ==
  /\ \A id \in DOMAIN orders :
       /\ isOverdue(orders[id], now) <=> C23_Overdue(orders[id], now)
       /\ id \in getOverdue(orders, now) <=> C23_Overdue(orders[id], now)
       /\ orders[id].status # OVERDUE
  /\ \A id \in DOMAIN cards :
       /\ isOverdue(cards[id], now) <=> C23_Overdue(cards[id], now)
       /\ id \in getOverdue(cards, now) <=> C23_Overdue(cards[id], now)
       /\ MatchesQuery(cards[id], [status |-> "", priority |-> "", orderId |-> None,
                                   modelId |-> "", overdue |-> TRUE], now)
            <=> C23_Overdue(cards[id], now)
       /\ cards[id].status # OVERDUE

\* C24: for a component of an order, startComponentProduction fails if the component
\* already has a tracker that is not paused; pauseComponentProduction fails if the
\* component has no tracker or its tracker is already paused;
\* resumeComponentProduction fails if the component has no tracker, the tracker is
\* not paused, or pauseStartTime is absent; each failure leaves the tracker unchanged.
C24_Index(components, componentId) ==
  CHOOSE i \in 1..Len(components) :
    /\ components[i].componentId = componentId
    /\ \A j \in 1..(i - 1) : components[j].componentId # componentId

C24_Refused(id, i) ==
  /\ res'.outcome # OK
  /\ id \in DOMAIN orders'
  /\ orders'[id].components[i].timeTracker = orders[id].components[i].timeTracker

C24_OrderComponentTimerGuards ==
  [][\A id \in DOMAIN orders :
       (/\ res'.kind = "order" /\ res'.id = id
        /\ \E i \in 1..Len(orders[id].components) :
              orders[id].components[i].componentId = res'.comp)
       => LET i == C24_Index(orders[id].components, res'.comp)
              tr == orders[id].components[i].timeTracker
          IN  /\ (res'.op = "startComponentProduction" /\ tr.exists /\ ~tr.isPaused)
                   => C24_Refused(id, i)
              /\ (res'.op = "pauseComponentProduction" /\ (~tr.exists \/ tr.isPaused))
                   => C24_Refused(id, i)
              /\ (/\ res'.op = "resumeComponentProduction"
                  /\ (~tr.exists \/ ~tr.isPaused \/ tr.pauseStartTime = None))
                   => C24_Refused(id, i)]_vars

\* the start of a component timer has just been refused on a component whose timer
\* has been running since an earlier clock reading
C24_Witness ==
  /\ res.kind = "order" /\ res.op = "startComponentProduction" /\ res.outcome = InvalidState
  /\ res.id \in DOMAIN orders
  /\ \E i \in 1..Len(orders[res.id].components) :
       /\ orders[res.id].components[i].componentId = res.comp
       /\ ~orders[res.id].components[i].isCompleted
       /\ orders[res.id].components[i].timeTracker.exists
       /\ ~orders[res.id].components[i].timeTracker.isPaused
       /\ orders[res.id].components[i].timeTracker.startTime < now

\* C25: the component timer of a production card has the same guards as the component
\* timer of an order: starting a card component that already has a running (not
\* paused) tracker fails instead of resetting it, pausing a card component with no
\* tracker or an already paused tracker fails (without creating a tracker that has no
\* startTime or moving pauseStartTime), and resuming a card component that is not
\* paused fails.
C25_Refused(id, i) ==
  /\ res'.outcome # OK
  /\ id \in DOMAIN cards'
  /\ cards'[id].components[i].timeTracker = cards[id].components[i].timeTracker

C25_CardComponentTimerGuards ==
  [][\A id \in DOMAIN cards :
       (/\ res'.kind = "card" /\ res'.id = id
        /\ \E i \in 1..Len(cards[id].components) :
              cards[id].components[i].componentId = res'.comp)
       => LET i == C24_Index(cards[id].components, res'.comp)
              tr == cards[id].components[i].timeTracker
          IN  /\ (res'.op = "startComponentProduction" /\ tr.exists /\ ~tr.isPaused)
                   => C25_Refused(id, i)
              /\ (res'.op = "pauseComponentProduction" /\ (~tr.exists \/ tr.isPaused))
                   => C25_Refused(id, i)
              /\ (res'.op = "resumeComponentProduction" /\ (~tr.exists \/ ~tr.isPaused))
                   => C25_Refused(id, i)]_vars

\* C26: in every reachable state no two inventory items have the same SKU and every
\* inventory item's quantity is >= 0: createInventoryItem and updateInventoryItem fail
\* on a SKU already used by another item, updateQuantity fails on a negative quantity,
\* and bulkUpdateQuantities containing any negative quantity fails without changing
\* the quantity of any item in the batch.
C26_UsedByAnother(sku, id) ==
  \E i \in ItemIds \ {id} : inventory[i].exists /\ inventory[i].sku = sku

C26_Catalog ==
  /\ \A i, j \in ItemIds :
       (i # j /\ inventory[i].exists /\ inventory[j].exists)
       => inventory[i].sku # inventory[j].sku
  /\ \A i \in ItemIds : inventory[i].exists => inventory[i].quantity >= 0

C26_Requests ==
  res'.kind = "item"
  => /\ (res'.op = "createInventoryItem" /\ C26_UsedByAnother(res'.body.sku, ""))
          => res'.outcome # OK /\ inventory' = inventory
     /\ (/\ res'.op = "updateInventoryItem" /\ res'.body.sku # ""
         /\ C26_UsedByAnother(res'.body.sku, res'.comp))
          => res'.outcome # OK /\ inventory' = inventory
     /\ (res'.op = "updateQuantity" /\ res'.body < 0)
          => res'.outcome # OK /\ inventory' = inventory
     /\ (/\ res'.op = "bulkUpdateQuantities"
         /\ \E k \in 1..Len(res'.body) : res'.body[k].quantity < 0)
          => res'.outcome # OK /\ inventory' = inventory

C26_SkuUniqueQuantityNonNegative == []C26_Catalog /\ [][C26_Requests]_vars

\* a bulk update whose second entry is negative has just been refused, and the item
\* of its first entry does not have the quantity that entry asked for
C26_Witness ==
  /\ res.kind = "item" /\ res.op = "bulkUpdateQuantities" /\ res.outcome # OK
  /\ res.body[1].quantity >= 0 /\ res.body[2].quantity < 0
  /\ res.body[1].id # res.body[2].id
  /\ inventory[res.body[1].id].exists
  /\ inventory[res.body[1].id].quantity # res.body[1].quantity

\* C27: no operation on a production card (start, pause, resume, completeComponent,
\* completeCard, cancelCard, updateCard, deleteCard) changes any field of its parent
\* order; in particular completing the last remaining card of an order leaves the
\* order's status as it was.
C27_CardOps ==
  {"startProduction", "pauseProduction", "resumeProduction", "completeComponent",
   "completeCard", "cancelCard", "updateCard", "deleteCard"}

C27_CardOpsLeaveOrders ==
  [][IsCardCall(C27_CardOps) => orders' = orders]_vars

\* the last card of an order of two units has just been completed and the order,
\* started earlier, is still in progress
C27_Witness ==
  /\ res.kind = "card" /\ res.op = "completeCard" /\ res.outcome = OK
  /\ res.id \in DOMAIN cards
  /\ cards[res.id].orderId \in DOMAIN orders
  /\ orders[cards[res.id].orderId].status = IN_PROGRESS
  /\ Cardinality(CardsOfOrder(cards, cards[res.id].orderId)) = 2
  /\ \A k \in CardsOfOrder(cards, cards[res.id].orderId) : cards[k].status = COMPLETED

\* C28: after a successful updateComponentMaterials the component's material list
\* contains exactly one entry per incoming entry whose material id resolves in the
\* catalog, in input order; each entry whose material id was already in the previous
\* list keeps that entry's plannedQuantity (including a plannedQuantity of 0), each
\* new material id gets plannedQuantity 1, and entries whose id does not resolve are
\* dropped without failing the call.
C28_Planned(old, materialId) ==
  IF \E j \in 1..Len(old) : old[j].materialId = materialId
    THEN old[CHOOSE j \in 1..Len(old) :
               /\ old[j].materialId = materialId
               /\ \A h \in 1..(j - 1) : old[h].materialId # materialId].plannedQuantity
    ELSE 1

C28_Replaced(old, new, ms) ==
  LET resolved == SelectSeq(ms, LAMBDA m : m.materialId \in ItemIds
                                            /\ inventory[m.materialId].exists)
  IN  /\ Len(new) = Len(resolved)
      /\ \A k \in 1..Len(resolved) :
           /\ new[k].materialId = resolved[k].materialId
           /\ new[k].actualQuantity = resolved[k].actualQuantity
           /\ new[k].plannedQuantity = C28_Planned(old, resolved[k].materialId)

C28_BulkReplaceKeepsPlanned ==
  [][\A id \in DOMAIN orders, ms \in MaterialsIn :
       (/\ IsOrderCall({"updateComponentMaterials"}) /\ res'.id = id /\ res'.outcome = OK
        /\ updateComponentMaterials(id, res'.comp, ms))
       => LET i == C24_Index(orders[id].components, res'.comp)
          IN  C28_Replaced(orders[id].components[i].materialUsage,
                           orders'[id].components[i].materialUsage, ms)]_vars

\* C29: once the status of an order is completed it stays completed under every
\* interleaving of concurrent requests on that order: no step of a pauseProduction,
\* resumeProduction or cancelOrder request whose guard was evaluated before the
\* completeOrder wrote turns a completed order into paused, in_progress or cancelled.
C29_CompletedStays ==
  \A id \in DOMAIN orders :
    orders[id].status = COMPLETED => orders'[id].status = COMPLETED

C29_CompletedStaysUnderInterleaving == [][C29_CompletedStays]_vars

\* C30: when distinct cards of one model are completed by concurrent completeCard
\* requests, once all of them are answered the stock of the model is higher by the
\* number of completed cards (counted from the stock of the catalog, no
\* order having been completed), whatever the interleaving of the findById and
\* updateQuantity steps was.
C30_CompletedCards == {id \in DOMAIN cards : cards[id].status = COMPLETED}

C30_NoIncrementLost ==
  (/\ \A r \in inflight : r.kind # "card"
   /\ \A id \in DOMAIN orders : orders[id].completedAt = None
   /\ \A r \in inflight : r.op # "completeOrder")
  => inventory["m1"].quantity = Catalog["m1"].quantity + Cardinality(C30_CompletedCards)

\* C31: an order adds to the stock of its model at most once, under every
\* interleaving: with no card completed, the stock of the model never exceeds the
\* stock of the catalog by more than the quantity of the order, so two concurrent
\* completeOrder requests cannot both pass the guard and both add the quantity.
C31_OrderAddsStockOnce ==
  (\A id \in DOMAIN cards : cards[id].completedAt = None)
  => \A id \in DOMAIN orders :
       inventory[orders[id].modelId].quantity
         <= Catalog[orders[id].modelId].quantity + orders[id].quantity

\* C32: for an order of quantity N, whatever card and order operations were served,
\* the stock added to the model by completing the cards of the order and the order
\* itself is at most N: the stock of the model never exceeds the stock of the
\* catalog by more than the quantity of the only order.
C32_StockAddedAtMostQuantity ==
  \A id \in DOMAIN orders :
    LET item == orders[id].modelId
    IN  inventory[item].quantity - Catalog[item].quantity <= orders[id].quantity

\* C33: in every reachable state, every order has as many production cards as its
\* quantity says, and each of these cards carries the quantity of the order as
\* totalCards and the due date of the order as dueDate, also after updateOrder
\* changed the quantity or the due date and after deleteCard removed one card.
C33_CardsFollowOrder ==
  \A id \in DOMAIN orders :
    /\ Cardinality(CardsOfOrder(cards, id)) = orders[id].quantity
    /\ \A c \in CardsOfOrder(cards, id) :
         /\ cards[c].totalCards = orders[id].quantity
         /\ cards[c].dueDate = orders[id].dueDate

\* C34: the elapsed production time reported for the tracker of an order or of a
\* card never decreases from one state to the next, whatever start, pause, resume
\* or clock advance is served: in particular the value reported right after a
\* resume is not smaller than the value reported while the tracker was paused.
C34_NoDecrease(docs, docs2) ==
  \A id \in DOMAIN docs :
    (docs[id].timeTracker.exists /\ id \in DOMAIN docs2)
    => Elapsed(docs2[id].timeTracker, now') >= Elapsed(docs[id].timeTracker, now)

C34_ElapsedNeverDecreases ==
  [][C34_NoDecrease(orders, orders') /\ C34_NoDecrease(cards, cards')]_vars

\* C35: once an order or a card is completed or cancelled with its tracker running
\* (not paused), the elapsed production time that a query returns keeps the value
\* it had: no later step, the advance of the clock included, changes it.
C35_Frozen(docs, docs2) ==
  \A id \in DOMAIN docs :
    (/\ docs[id].status \in {COMPLETED, CANCELLED}
     /\ docs[id].timeTracker.exists
     /\ ~docs[id].timeTracker.isPaused
     /\ id \in DOMAIN docs2)
    => Elapsed(docs2[id].timeTracker, now') = Elapsed(docs[id].timeTracker, now)

C35_ElapsedStopsAtTheEnd ==
  [][C35_Frozen(orders, orders') /\ C35_Frozen(cards, cards')]_vars

\* C36: in every reachable state, an order or card that is pending has no time
\* tracker of its own, one that is in_progress has a tracker with isPaused false,
\* and one that is paused has a tracker with isPaused true and pauseStartTime set
\* (so that resumeProduction finds the pause start it needs).
C36_TrackerFits(doc) ==
  /\ doc.status = PENDING => ~doc.timeTracker.exists
  /\ doc.status = IN_PROGRESS => doc.timeTracker.exists /\ ~doc.timeTracker.isPaused
  /\ doc.status = PAUSED =>
       /\ doc.timeTracker.exists
       /\ doc.timeTracker.isPaused
       /\ doc.timeTracker.pauseStartTime # None

C36_StatusMatchesTracker ==
  /\ \A id \in DOMAIN orders : C36_TrackerFits(orders[id])
  /\ \A id \in DOMAIN cards : C36_TrackerFits(cards[id])

\* C37: createManufacturingOrder is all or nothing: a createManufacturingOrder
\* request that is answered with an error leaves the order collection and the
\* card collection as they were, so that no order is left with fewer cards than
\* its quantity because the creation stopped part-way.
C37_FailedCreateStoresNothing ==
  (IsOrderCall({"createManufacturingOrder"}) /\ res'.outcome # OK)
  => orders' = orders /\ cards' = cards

C37_CreateAllOrNothing == [][C37_FailedCreateStoresNothing]_vars

\* C38: updateOrder and updateCard leave the status, the component list and the
\* time tracker of every order and card as they were, whatever the request body
\* is; the status changes through start, pause, resume, complete and cancel only.
C38_Kept(docs, docs2) ==
  \A id \in DOMAIN docs \cap DOMAIN docs2 :
    /\ docs2[id].status = docs[id].status
    /\ docs2[id].components = docs[id].components
    /\ docs2[id].timeTracker = docs[id].timeTracker

C38_UpdateStep ==
  (IsOrderCall({"updateOrder"}) \/ IsCardCall({"updateCard"}))
  => C38_Kept(orders, orders') /\ C38_Kept(cards, cards')

C38_UpdateKeepsLifecycleFields == [][C38_UpdateStep]_vars

\* C39: once an order is cancelled, no production card of the order is started or
\* completed any more, and no step raises the stock of the model of the order.
C39_AfterCancel ==
  \A id \in DOMAIN orders :
    orders[id].status = CANCELLED
    => /\ ~(/\ IsCardCall({"startProduction", "completeCard"})
            /\ res'.outcome = OK
            /\ res'.id \in CardsOfOrder(cards, id))
       /\ inventory'[orders[id].modelId].quantity <= inventory[orders[id].modelId].quantity

C39_CancelledOrderStopsItsCards == [][C39_AfterCancel]_vars

====
